---- MODULE Spec2Model ----
(***************************************************************************)
(* State-machine model of the grid searches of aoc-2024-rust:              *)
(*   - src/lib.rs     Direction, Coord, Dimensions, Maze                   *)
(*   - src/bin/16.rs  find_lowest_score, part_one,                         *)
(*                    find_lowest_score_seats, part_two                    *)
(*   - src/bin/18.rs  part_one (level-by-level BFS)                        *)
(* Option<T> is modelled as a sequence: None is <<>>, Some(v) is <<v>>.    *)
(***************************************************************************)
EXTENDS Integers, Sequences, FiniteSets, Bags, TLC

None == <<>>
Some(v) == <<v>>

(***************************************************************************)
(* Bounds of the model.                                                    *)
(***************************************************************************)
\* Day 16: mazes have MazeW interior columns and MazeH interior rows, inside
\* a closed ring of wall cells (columns 0 and MazeW+1, rows 0 and MazeH+1).
MazeW == 3
MazeH == 2
\* Day 18: the grid is GridX by GridY (7 by 7 or 71 by 71 in the source) and
\* the walls are the first TakeBytes bytes of the input (12 or 1024 there).
GridX == 5
GridY == 3
TakeBytes == 4
\* Day 18: i, which the loop increments without limit, is followed up to MaxIter.
MaxIter == 12
\* Dimensions::wrap: grids up to MaxDim by MaxDim, coordinates of absolute
\* value up to MaxCoord.
MaxDim == 3
MaxCoord == 7

(***************************************************************************)
(* src/lib.rs : Direction                                                  *)
(***************************************************************************)
Direction == {"Up", "Down", "Left", "Right"}

to_dx_dy(d) ==
    CASE d = "Up"    -> <<0, 1>>
      [] d = "Down"  -> <<0, -1>>
      [] d = "Left"  -> <<-1, 0>>
      [] d = "Right" -> <<1, 0>>

turn_right(d) ==
    CASE d = "Up"    -> "Right"
      [] d = "Down"  -> "Left"
      [] d = "Left"  -> "Up"
      [] d = "Right" -> "Down"

\* the mutant of turn_left whose last two arms are exchanged
turn_left_arms_exchanged(d) ==
    CASE d = "Up"    -> "Left"
      [] d = "Down"  -> "Right"
      [] d = "Left"  -> "Up"
      [] d = "Right" -> "Down"

turn_left(d) ==
    CASE d = "Up"    -> "Left"
      [] d = "Down"  -> "Right"
      [] d = "Left"  -> "Down"
      [] d = "Right" -> "Up"

(***************************************************************************)
(* src/lib.rs : Coord                                                      *)
(***************************************************************************)
Coord(x, y) == [x |-> x, y |-> y]

Coord_step(c, dx, dy) == Coord(c.x + dx, c.y + dy)

step_in_direction(c, d) == Coord_step(c, to_dx_dy(d)[1], to_dx_dy(d)[2])

(***************************************************************************)
(* src/bin/16.rs : State                                                   *)
(***************************************************************************)
State(p, d) == [pos |-> p, dir |-> d]

start_state(m) == State(m.start, "Right")

State_step(s) == State(step_in_direction(s.pos, s.dir), s.dir)

State_turn_left(s) == State(s.pos, turn_left(s.dir))

State_turn_right(s) == State(s.pos, turn_right(s.dir))

(***************************************************************************)
(* src/bin/16.rs : PqState, PqState2 and their orderings.  A BinaryHeap    *)
(* pops an entry that no other entry exceeds under Ord::cmp; which of      *)
(* several equal entries it pops is left open.                             *)
(***************************************************************************)
usize_cmp(a, b) == IF a < b THEN "Less" ELSE IF a = b THEN "Equal" ELSE "Greater"

\* PqState::cmp without the reversal: the heap stays a max-heap
PqState_cmp_unreversed(self, other) == usize_cmp(self.score_so_far, other.score_so_far)

PqState_cmp(self, other) == usize_cmp(other.score_so_far, self.score_so_far)

\* PqState2::cmp comparing self with itself: every two entries are Equal
PqState2_cmp_self(self, other) == usize_cmp(self.score_so_far, self.score_so_far)

PqState2_cmp(self, other) == usize_cmp(other.score_so_far, self.score_so_far)

\* the entries BinaryHeap::pop may return from a non-empty PqState heap
PopChoices(q) ==
    {e \in BagToSet(q) : \A f \in BagToSet(q) : PqState_cmp(e, f) # "Less"}

\* the entries BinaryHeap::pop may return from a non-empty PqState2 heap
PopChoices2(q) ==
    {e \in BagToSet(q) : \A f \in BagToSet(q) : PqState2_cmp(e, f) # "Less"}

\* the three successors tried by both searches, in the order of the array
new_states(s) ==
    <<State_step(s), State_step(State_turn_left(s)), State_step(State_turn_right(s))>>

\* the mutant of cost that charges the step after a turn twice
cost_turn_1002(new_state, s) == IF new_state.dir = s.dir THEN 1 ELSE 1002

\* 1 for a forward step, 1001 for a turn followed by a step
cost(new_state, s) == IF new_state.dir = s.dir THEN 1 ELSE 1001

(***************************************************************************)
(* Mazes: the values a Maze can take within the bounds.                    *)
(***************************************************************************)
MazeCols == 0 .. MazeW + 1
MazeRows == 0 .. MazeH + 1
MazeCells == {Coord(x, y) : x \in MazeCols, y \in MazeRows}
Interior == {c \in MazeCells : c.x \in 1 .. MazeW /\ c.y \in 1 .. MazeH}
Border == MazeCells \ Interior

\* parse_maze reads start, end and walls from different characters, so
\* neither start nor end is a wall; a Maze built directly may have start = end.
Mazes ==
    {m \in [start : Interior, end : Interior,
            walls : {Border \cup w : w \in SUBSET Interior}] :
        m.start \notin m.walls /\ m.end \notin m.walls}

VARIABLES
    maze,               \* the Maze both parts are run on
    pc,                 \* the function of 16.rs that is running
    queue,              \* find_lowest_score: BinaryHeap<PqState>
    visited,            \* find_lowest_score: HashSet<State>
    score_so_far,       \* score of the entry popped last (both searches)
    lowest_score,       \* Option<usize> returned by find_lowest_score
    part_one_result,    \* Option<u32> returned by part_one
    panicked,           \* part_one panicked (unwrap on None)
    queue2,             \* find_lowest_score_seats: BinaryHeap<PqState2>
    best_score,         \* find_lowest_score_seats: Option<usize>
    best_seats,         \* find_lowest_score_seats: HashSet<Coord>
    min_score_to_node,  \* find_lowest_score_seats: HashMap<State, usize>
    part_two_result,    \* Option<u32> returned by part_two
    run,                \* 1 in the first run of both parts on the maze, 2 in the second
    first_score,        \* what find_lowest_score returned in the first run
    first_seats,        \* what find_lowest_score_seats returned in the first run
    p18_walls,          \* 18.rs part_one: walls (the first bytes of the input)
    p18_queue,          \* 18.rs part_one: queue, a Vec<State>
    p18_i,              \* 18.rs part_one: i, the number of the level being built
    p18_pc,             \* 18.rs part_one: "loop" at the head of the loop, or "done"
    p18_result,         \* 18.rs part_one: the Option<u32> returned
    dim,                \* lib.rs: the Dimensions wrap is called on
    coord,              \* lib.rs: the Coord passed to wrap
    wrapped             \* lib.rs: Some(the Coord wrap returned), None before the call

vars16 == <<maze, pc, queue, visited, score_so_far, lowest_score, part_one_result,
            panicked, queue2, best_score, best_seats, min_score_to_node,
            part_two_result, run, first_score, first_seats>>

\* what one run leaves alone: the maze is immutable, and so is the record of
\* the first run
runs16 == <<maze, run, first_score, first_seats>>

vars18 == <<p18_walls, p18_queue, p18_i, p18_pc, p18_result>>

varsWrap == <<dim, coord, wrapped>>

\* one record-valued variable per further program: pm parse_maze (lib.rs),
\* tr the Direction/State operations, d9 day 9 part_one, p2 day 18 part_two,
\* d17 day 17 Bits1/Bits2, d21 day 21 find_shortest_path, d23 day 23 part_two
VARIABLES pm, tr, d9, p2, d17, d21, d23

varsRest == <<pm, tr, d9, p2, d17, d21, d23>>

\* d9two day 9 part_two, d13 day 13 part_one, d22 day 22 Diffs
VARIABLES d9two, d13, d22

varsLate == <<d9two, d13, d22>>

others16 == <<vars18, varsWrap, varsRest, varsLate>>

vars == <<vars16, vars18, varsWrap, varsRest, varsLate>>

\* the variables of a program that is not the one a specification runs
Idle16 ==
    /\ maze = [start |-> Coord(0, 0), end |-> Coord(0, 0), walls |-> {}]
    /\ pc = "idle"
    /\ queue = EmptyBag
    /\ visited = {}
    /\ score_so_far = 0
    /\ lowest_score = None
    /\ part_one_result = None
    /\ panicked = FALSE
    /\ queue2 = EmptyBag
    /\ best_score = None
    /\ best_seats = {}
    /\ min_score_to_node = << >>
    /\ part_two_result = None
    /\ run = 1
    /\ first_score = None
    /\ first_seats = {}

Idle18 ==
    /\ p18_walls = {}
    /\ p18_queue = << >>
    /\ p18_i = 0
    /\ p18_pc = "idle"
    /\ p18_result = None

IdleWrap ==
    /\ dim = [x |-> 1, y |-> 1]
    /\ coord = Coord(0, 0)
    /\ wrapped = None

Off == [pc |-> "off"]

IdleLate ==
    /\ d9two = Off
    /\ d13 = Off
    /\ d22 = Off

IdleRest ==
    /\ IdleLate
    /\ pm = Off
    /\ tr = Off
    /\ d9 = Off
    /\ p2 = Off
    /\ d17 = Off
    /\ d21 = Off
    /\ d23 = Off

(***************************************************************************)
(* src/bin/16.rs : find_lowest_score                                       *)
(***************************************************************************)
start_pq_state(m) == [score_so_far |-> 0, state |-> start_state(m)]

\* Pushes with a turn followed by a step charged 1000 instead of 1001
Pushes_turn_1000(m, score, s, vis) ==
    LET cands == new_states(s)
        kept == {i \in 1 .. 3 : /\ cands[i].pos \notin m.walls
                                /\ cands[i] \notin vis}
    IN  SetToBag({[score_so_far |-> score + (IF cands[i].dir = s.dir THEN 1 ELSE 1000),
                   state |-> cands[i]] : i \in kept})

\* The entries pushed by the for loop of find_lowest_score for the popped
\* entry (score, s); vis is the visited set after s was inserted.  The three
\* candidates differ in dir, so no entry is pushed twice in one iteration.
Pushes(m, score, s, vis) ==
    LET cands == new_states(s)
        kept == {i \in 1 .. 3 : /\ cands[i].pos \notin m.walls
                                /\ cands[i] \notin vis}
    IN  SetToBag({[score_so_far |-> score + cost(cands[i], s), state |-> cands[i]]
                     : i \in kept})

\* find_lowest_score returns r: its locals are dropped and part_one goes on
FlsReturn(r) ==
    /\ lowest_score' = r
    /\ queue' = EmptyBag
    /\ visited' = {}
    /\ pc' = "part_one"

\* one iteration of the while-let loop
FlsPop ==
    /\ pc = "find_lowest_score"
    /\ queue # EmptyBag
    /\ \E e \in PopChoices(queue) :
        LET rest == queue (-) SetToBag({e}) IN
        /\ score_so_far' = e.score_so_far
        /\ IF e.state.pos = maze.end
             THEN FlsReturn(Some(e.score_so_far))
             ELSE IF e.state \in visited
               THEN /\ queue' = rest
                    /\ UNCHANGED <<visited, lowest_score, pc>>
               ELSE /\ visited' = visited \cup {e.state}
                    /\ queue' = rest (+) Pushes(maze, e.score_so_far, e.state, visited')
                    /\ UNCHANGED <<lowest_score, pc>>
    /\ UNCHANGED <<part_one_result, panicked, queue2, best_score, best_seats,
                   min_score_to_node, part_two_result>>
    /\ UNCHANGED <<runs16, others16>>

\* queue.pop() yields None: the loop ends and the function returns None
FlsEmpty ==
    /\ pc = "find_lowest_score"
    /\ queue = EmptyBag
    /\ FlsReturn(None)
    /\ UNCHANGED <<score_so_far, part_one_result, panicked, queue2, best_score,
                   best_seats, min_score_to_node, part_two_result>>
    /\ UNCHANGED <<runs16, others16>>

(***************************************************************************)
(* src/bin/16.rs : part_one.  part_two is an entry point of its own, run   *)
(* on the same input whether or not part_one panicked.                     *)
(***************************************************************************)
\* `as u32` keeps the low 32 bits.  Every score and count of the model is
\* below 2^31 (the largest integer TLC represents), where that changes nothing.
u32(n) == n

\* start_pq_state of find_lowest_score_seats with path: HashSet::new()
start_pq_state2_empty_path(m) ==
    [score_so_far |-> 0, state |-> start_state(m), path |-> {}]

start_pq_state2(m) ==
    [score_so_far |-> 0, state |-> start_state(m), path |-> {m.start}]

\* find_lowest_score(&maze).unwrap(), then Some(score as u32)
PartOne ==
    /\ pc = "part_one"
    /\ IF lowest_score = None
         THEN /\ panicked' = TRUE
              /\ UNCHANGED part_one_result
         ELSE /\ part_one_result' = Some(u32(lowest_score[1]))
              /\ UNCHANGED panicked
    /\ pc' = "find_lowest_score_seats"
    /\ queue2' = SetToBag({start_pq_state2(maze)})
    /\ score_so_far' = 0
    /\ UNCHANGED <<queue, visited, lowest_score, best_score, best_seats,
                   min_score_to_node, part_two_result>>
    /\ UNCHANGED <<runs16, others16>>

(***************************************************************************)
(* src/bin/16.rs : find_lowest_score_seats, part_two                       *)
(***************************************************************************)
Pushes2(m, score, s, path) ==
    LET cands == new_states(s)
        kept == {i \in 1 .. 3 : cands[i].pos \notin m.walls}
    IN  SetToBag({[score_so_far |-> score + cost(cands[i], s), state |-> cands[i],
                   path |-> path \cup {cands[i].pos}] : i \in kept})

\* the test that skips an entry whose state was reached with a lower score
\* the mutant of stop_test that also stops at a score equal to the best
stop_test_at_equal(best, score) == best # None /\ score >= best[1]

\* line 196: all other paths are longer than the best path
stop_test(best, score) == best # None /\ score > best[1]

\* the mutant of AlreadyLower that also prunes at an equal score and never
\* at a lower one recorded
AlreadyLower_reversed(m, s, score) == s \in DOMAIN m /\ m[s] > score

AlreadyLower(m, s, score) == s \in DOMAIN m /\ m[s] < score

HashMap_insert(m, k, v) == [x \in DOMAIN m \cup {k} |-> IF x = k THEN v ELSE m[x]]

\* the loop is left (break, or the queue is empty): best_seats is returned
\* and the other locals are dropped
SeatsReturn ==
    /\ queue2' = EmptyBag
    /\ min_score_to_node' = << >>
    /\ pc' = "part_two"

\* one iteration of the while-let loop
SeatsPop ==
    /\ pc = "find_lowest_score_seats"
    /\ queue2 # EmptyBag
    /\ \E e \in PopChoices2(queue2) :
        LET rest == queue2 (-) SetToBag({e}) IN
        /\ score_so_far' = e.score_so_far
        /\ IF stop_test(best_score, e.score_so_far)
             THEN /\ SeatsReturn
                  /\ UNCHANGED <<best_score, best_seats>>
             ELSE IF e.state.pos = maze.end
               THEN /\ best_score' = Some(e.score_so_far)
                    /\ best_seats' = best_seats \cup e.path
                    /\ queue2' = rest
                    /\ UNCHANGED <<min_score_to_node, pc>>
               ELSE IF AlreadyLower(min_score_to_node, e.state, e.score_so_far)
                 THEN /\ queue2' = rest
                      /\ UNCHANGED <<best_score, best_seats, min_score_to_node, pc>>
                 ELSE /\ min_score_to_node' =
                            HashMap_insert(min_score_to_node, e.state, e.score_so_far)
                      /\ queue2' = rest (+) Pushes2(maze, e.score_so_far, e.state, e.path)
                      /\ UNCHANGED <<best_score, best_seats, pc>>
    /\ UNCHANGED <<queue, visited, lowest_score, part_one_result, panicked,
                   part_two_result>>
    /\ UNCHANGED <<runs16, others16>>

\* queue.pop() yields None: the loop ends
SeatsEmpty ==
    /\ pc = "find_lowest_score_seats"
    /\ queue2 = EmptyBag
    /\ SeatsReturn
    /\ UNCHANGED <<queue, visited, score_so_far, lowest_score, part_one_result,
                   panicked, best_score, best_seats, part_two_result>>
    /\ UNCHANGED <<runs16, others16>>

\* Some(lowest_score_seats.len() as u32)
PartTwo ==
    /\ pc = "part_two"
    /\ part_two_result' = Some(u32(Cardinality(best_seats)))
    /\ pc' = "done"
    /\ UNCHANGED <<queue, visited, score_so_far, lowest_score, part_one_result,
                   panicked, queue2, best_score, best_seats, min_score_to_node>>
    /\ UNCHANGED <<runs16, others16>>

\* the state in which find_lowest_score starts on maze m
Start16(m) ==
    /\ pc = "find_lowest_score"
    /\ queue = SetToBag({start_pq_state(m)})
    /\ visited = {}
    /\ score_so_far = 0
    /\ lowest_score = None
    /\ part_one_result = None
    /\ panicked = FALSE
    /\ queue2 = EmptyBag
    /\ best_score = None
    /\ best_seats = {}
    /\ min_score_to_node = << >>
    /\ part_two_result = None

\* Both parts are run a second time on the same maze (every search creates
\* its structures afresh); what the first run returned is kept for comparison.
Rerun ==
    /\ pc = "done"
    /\ run = 1
    /\ run' = 2
    /\ first_score' = lowest_score
    /\ first_seats' = best_seats
    /\ pc' = "find_lowest_score"
    /\ queue' = SetToBag({start_pq_state(maze)})
    /\ visited' = {}
    /\ score_so_far' = 0
    /\ lowest_score' = None
    /\ part_one_result' = None
    /\ panicked' = FALSE
    /\ queue2' = EmptyBag
    /\ best_score' = None
    /\ best_seats' = {}
    /\ min_score_to_node' = << >>
    /\ part_two_result' = None
    /\ UNCHANGED <<maze, others16>>

Init16 ==
    /\ maze \in Mazes
    /\ Start16(maze)
    /\ run = 1
    /\ first_score = None
    /\ first_seats = {}
    /\ Idle18
    /\ IdleWrap
    /\ IdleRest

Next16 ==
    \/ FlsPop
    \/ FlsEmpty
    \/ PartOne
    \/ SeatsPop
    \/ SeatsEmpty
    \/ PartTwo
    \/ Rerun

Spec16 == Init16 /\ [][Next16]_vars

(***************************************************************************)
(* src/lib.rs : Dimensions                                                 *)
(***************************************************************************)
Dimensions(x, y) == [x |-> x, y |-> y]

in_bounds(self, c) == c.x >= 0 /\ c.x < self.x /\ c.y >= 0 /\ c.y < self.y

RECURSIVE filter_in_bounds(_, _)
\* .filter(|coord| self.in_bounds(coord)) on a sequence of coordinates
filter_in_bounds(self, sq) ==
    IF sq = << >> THEN << >>
    ELSE IF in_bounds(self, Head(sq))
      THEN <<Head(sq)>> \o filter_in_bounds(self, Tail(sq))
      ELSE filter_in_bounds(self, Tail(sq))

\* get_neighbors without the step (0, -1): the last step repeats (0, 1)
get_neighbors_no_down(self, c) ==
    filter_in_bounds(self, <<Coord_step(c, 1, 0), Coord_step(c, -1, 0),
                             Coord_step(c, 0, 1), Coord_step(c, 0, 1)>>)

\* the neighbours in the order of the array, those out of bounds left out
get_neighbors(self, c) ==
    filter_in_bounds(self, <<Coord_step(c, 1, 0), Coord_step(c, -1, 0),
                             Coord_step(c, 0, 1), Coord_step(c, 0, -1)>>)

small_corner(self) == Coord(0, 0)

large_corner(self) == Coord(self.x - 1, self.y - 1)

(***************************************************************************)
(* src/bin/18.rs : part_one.  One action is one iteration of `loop`: the   *)
(* whole queue is processed into new_queue, unless the end is met first.   *)
(***************************************************************************)
dimensions == Dimensions(GridX, GridY)

\* the wall sets HashSet::from_iter(bytes.into_iter().take(..)) can yield
WallSets ==
    {w \in SUBSET {Coord(x, y) : x \in 0 .. GridX - 1, y \in 0 .. GridY - 1} :
        Cardinality(w) <= TakeBytes}

\* The body of `for neighbor in ...` for one neighbour n of the state st.
\* acc holds new_queue, new_queue_positions and ret, the value returned so
\* far (None while the function has not returned).
VisitNeighbor(acc, st, n, walls, i) ==
    IF acc.ret # None THEN acc
    ELSE IF n \in walls THEN acc
    ELSE IF n \in st.visited THEN acc
    ELSE IF n \in acc.new_queue_positions THEN acc
    ELSE IF n = large_corner(dimensions) THEN [acc EXCEPT !.ret = Some(u32(i))]
    ELSE [acc EXCEPT
            !.new_queue = Append(@, [pos |-> n, visited |-> st.visited \cup {st.pos}]),
            !.new_queue_positions = @ \cup {n}]

RECURSIVE VisitNeighbors(_, _, _, _, _)
VisitNeighbors(acc, st, ns, walls, i) ==
    IF ns = << >> THEN acc
    ELSE VisitNeighbors(VisitNeighbor(acc, st, Head(ns), walls, i), st, Tail(ns), walls, i)

RECURSIVE VisitQueue(_, _, _, _)
\* the body of `for State { pos, visited } in queue`
VisitQueue(acc, q, walls, i) ==
    IF q = << >> THEN acc
    ELSE VisitQueue(
            VisitNeighbors(acc, Head(q), get_neighbors(dimensions, Head(q).pos), walls, i),
            Tail(q), walls, i)

Level ==
    /\ p18_pc = "loop"
    /\ p18_i < MaxIter
    /\ LET acc == VisitQueue([new_queue |-> << >>, new_queue_positions |-> {},
                              ret |-> None], p18_queue, p18_walls, p18_i)
       IN  IF acc.ret # None
             THEN /\ p18_result' = acc.ret
                  /\ p18_pc' = "done"
                  /\ UNCHANGED <<p18_queue, p18_i>>
             ELSE /\ p18_queue' = acc.new_queue
                  /\ p18_i' = p18_i + 1
                  /\ UNCHANGED <<p18_result, p18_pc>>
    /\ UNCHANGED <<p18_walls, vars16, varsWrap, varsRest, varsLate>>

Init18 ==
    /\ p18_walls \in WallSets
    /\ p18_queue = <<[pos |-> small_corner(dimensions), visited |-> {}]>>
    /\ p18_i = 1
    /\ p18_pc = "loop"
    /\ p18_result = None
    /\ Idle16
    /\ IdleWrap
    /\ IdleRest

Next18 == Level

Spec18 == Init18 /\ [][Next18]_vars

(***************************************************************************)
(* The length of a shortest 4-directional path from (0,0) to the far       *)
(* corner that enters no wall cell, by flooding the grid level by level.   *)
(***************************************************************************)
GridCells == {Coord(x, y) : x \in 0 .. GridX - 1, y \in 0 .. GridY - 1}

Adjacent(a, b) ==
    \/ a.x = b.x /\ (a.y = b.y + 1 \/ b.y = a.y + 1)
    \/ a.y = b.y /\ (a.x = b.x + 1 \/ b.x = a.x + 1)

RECURSIVE Flood(_, _, _, _)
\* Some(k + the number of levels until the far corner is in the frontier)
Flood(walls, frontier, seen, k) ==
    IF Coord(GridX - 1, GridY - 1) \in frontier THEN Some(k)
    ELSE IF frontier = {} THEN None
    ELSE LET next == {c \in GridCells \ (walls \cup seen) :
                        \E f \in frontier : Adjacent(c, f)}
         IN  Flood(walls, next, seen \cup next, k + 1)

ShortestLength(walls) == Flood(walls, {Coord(0, 0)}, {Coord(0, 0)}, 0)

(***************************************************************************)
(* C4: part_one of day 18 terminates for every wall set: it stops when the *)
(* end corner is first reached or when the frontier becomes empty, where   *)
(* it signals that the end is unreachable instead of iterating on.         *)
(* Violated: `loop` has no exit for an empty queue; it goes on with an     *)
(* empty queue and a growing i.                                            *)
(***************************************************************************)
C4_StopsWhenFrontierEmpty == p18_queue = << >> => p18_pc # "loop"

(***************************************************************************)
(* C7: when the far corner is reachable from (0,0) and differs from it,    *)
(* part_one returns the length of a shortest path: the loop never passes   *)
(* that level without returning, and the value returned is that length.    *)
(***************************************************************************)
C7_ReturnsShortestLength ==
    LET len == ShortestLength(p18_walls) IN
    (len # None /\ p18_pc \in {"loop", "done"}) =>
        /\ p18_pc = "loop" => p18_i <= len[1] /\ p18_result = None
        /\ p18_pc = "done" => p18_result = len

\* returned on a grid whose shortest path has to turn back (it is longer
\* than the distance between the corners)
C7_Witness ==
    /\ p18_pc = "done"
    /\ p18_result = ShortestLength(p18_walls)
    /\ p18_result[1] > (GridX - 1) + (GridY - 1)

(***************************************************************************)
(* src/lib.rs : Dimensions::wrap                                           *)
(***************************************************************************)
\* Rust's % on i64: the remainder of the division that truncates toward zero
i64_rem(a, b) == IF a >= 0 THEN a % b ELSE 0 - ((0 - a) % b)

wrap(self, c) ==
    LET new_x == IF c.x < 0
                   THEN LET diff == i64_rem(0 - c.x, self.x)
                        IN  i64_rem(self.x - diff, self.x)
                   ELSE IF c.x > self.x
                     THEN i64_rem(c.x - self.x, self.x)
                     ELSE c.x
        new_y == IF c.y < 0
                   THEN LET diff == i64_rem(0 - c.y, self.y)
                        IN  i64_rem(self.y - diff, self.y)
                   ELSE IF c.y > self.y
                     THEN i64_rem(c.y - self.y, self.y)
                     ELSE c.y
    IN  Coord(new_x, new_y)

\* the call dim.wrap(&coord)
Wrap ==
    /\ wrapped = None
    /\ wrapped' = Some(wrap(dim, coord))
    /\ UNCHANGED <<dim, coord, vars16, vars18, varsRest, varsLate>>

InitWrap ==
    /\ dim \in {Dimensions(x, y) : x \in 1 .. MaxDim, y \in 1 .. MaxDim}
    /\ coord \in {Coord(x, y) : x \in (0 - MaxCoord) .. MaxCoord,
                                y \in (0 - MaxCoord) .. MaxCoord}
    /\ wrapped = None
    /\ Idle16
    /\ Idle18
    /\ IdleRest

NextWrap == Wrap

SpecWrap == InitWrap /\ [][NextWrap]_vars

(***************************************************************************)
(* C10: for every grid size (x >= 1, y >= 1) and every coordinate, also a  *)
(* negative one and one equal to or a multiple of the grid size, the       *)
(* result r of wrap has 0 <= r.x < x and 0 <= r.y < y, r.x is congruent to *)
(* coord.x modulo x and r.y to coord.y modulo y, and a coordinate already  *)
(* in bounds is returned unchanged.                                        *)
(* Violated: a coordinate equal to the grid size is returned as it is      *)
(* (the test is coord.x > self.x, not >=).                                 *)
(***************************************************************************)
C10_WrapIsInBoundsAndCongruent ==
    wrapped # None =>
        LET r == wrapped[1] IN
        /\ 0 <= r.x /\ r.x < dim.x
        /\ 0 <= r.y /\ r.y < dim.y
        /\ (r.x - coord.x) % dim.x = 0
        /\ (r.y - coord.y) % dim.y = 0
        /\ in_bounds(dim, coord) => r = coord

(***************************************************************************)
(* The puzzle's cost of a maze, independent of both searches: a forward    *)
(* step into a free cell costs 1, a rotation by 90 degrees in place costs  *)
(* 1000.  Computed by relaxation to a fixed point.                         *)
(***************************************************************************)
Unreached == 1000 * 1000

MinOf(S) == CHOOSE v \in S : \A w \in S : v <= w

FreeStates(m) == {State(p, d) : p \in MazeCells \ m.walls, d \in Direction}

\* the moves of the puzzle from state s: <<state reached, cost>>
Moves(m, s) ==
    {<<State_turn_left(s), 1000>>, <<State_turn_right(s), 1000>>}
        \cup (IF State_step(s).pos \in m.walls THEN {} ELSE {<<State_step(s), 1>>})

RECURSIVE FromStart(_, _)
\* least cost from the start state to every state, starting from D
FromStart(m, D) ==
    LET R == [s \in DOMAIN D |->
                MinOf({D[s]} \cup UNION {{D[p] + mv[2] :
                    mv \in {n \in Moves(m, p) : n[1] = s}} : p \in DOMAIN D})]
    IN  IF R = D THEN D ELSE FromStart(m, R)

RECURSIVE ToEnd(_, _)
\* least cost from every state to a state on the end cell, starting from D
ToEnd(m, D) ==
    LET R == [s \in DOMAIN D |->
                MinOf({D[s]} \cup {mv[2] + D[mv[1]] : mv \in Moves(m, s)})]
    IN  IF R = D THEN D ELSE ToEnd(m, R)

CostFromStart(m) ==
    FromStart(m, [s \in FreeStates(m) |-> IF s = start_state(m) THEN 0 ELSE Unreached])

CostToEnd(m) ==
    ToEnd(m, [s \in FreeStates(m) |-> IF s.pos = m.end THEN 0 ELSE Unreached])

\* Some(the minimum cost of reaching the end cell), None if there is no path
MinimumCost(m) ==
    LET c == MinOf({CostFromStart(m)[State(m.end, d)] : d \in Direction})
    IN  IF c >= Unreached THEN None ELSE Some(c)

\* the cells that lie on at least one minimum-cost path
CellsOnMinimumPaths(m) ==
    LET F == CostFromStart(m)
        T == CostToEnd(m)
        best == MinOf({F[State(m.end, d)] : d \in Direction})
    IN  {p \in MazeCells \ m.walls :
            best < Unreached /\ \E d \in Direction : F[State(p, d)] + T[State(p, d)] = best}

FlsReturned == pc \in {"part_one", "find_lowest_score_seats", "part_two", "done"}

SeatsReturned == pc \in {"part_two", "done"}

(***************************************************************************)
(* C1: find_lowest_score returns the minimum total cost over all           *)
(* wall-avoiding move sequences from the start (facing Right) to the end,  *)
(* a step costing 1 and a 90-degree rotation in place 1000, including      *)
(* starts that must first turn around by 180 degrees.                      *)
(* Violated: no successor of the start state faces backwards.              *)
(***************************************************************************)
C1_LowestScoreIsMinimumCost == FlsReturned => lowest_score = MinimumCost(maze)

(***************************************************************************)
(* C2: when the end is reachable, find_lowest_score_seats returns exactly  *)
(* the cells that lie on at least one minimum-cost path.                   *)
(* Violated on the mazes of C1 whose cheapest path starts by turning round.*)
(***************************************************************************)
C2_SeatsAreCellsOnMinimumPaths ==
    (SeatsReturned /\ MinimumCost(maze) # None)
        => best_seats = CellsOnMinimumPaths(maze)

(***************************************************************************)
(* C3: when no path leads from the start to the end, find_lowest_score     *)
(* returns None and part_one returns an absent result without panicking.   *)
(* Violated: part_one unwraps the None.                                    *)
(***************************************************************************)
C3_UnreachableIsAbsentNotPanic ==
    (pc \in {"find_lowest_score_seats", "part_two", "done"} /\ MinimumCost(maze) = None)
        => (lowest_score = None /\ part_one_result = None /\ ~panicked)


(***************************************************************************)
(* C5: every path find_lowest_score_seats merges into its result was       *)
(* popped with the score find_lowest_score returns for the same maze:      *)
(* best_score, whenever set, equals lowest_score, and when the search      *)
(* returns best_score is set exactly if lowest_score is.                   *)
(***************************************************************************)
C5_SeatsScoreEqualsLowestScore ==
    /\ best_score # None => best_score = lowest_score
    /\ SeatsReturned => best_score = lowest_score

\* two paths of score 2003 (two turns each) have been merged
C5_Witness ==
    /\ SeatsReturned
    /\ best_score = Some(2003)
    /\ lowest_score = Some(2003)
    /\ Cardinality(best_seats) = 5

(***************************************************************************)
(* C6: for a maze whose start and end are the same cell, whatever the      *)
(* walls, find_lowest_score returns Some(0) and find_lowest_score_seats    *)
(* returns exactly {start}.                                                *)
(***************************************************************************)
C6_StartIsEnd ==
    maze.start = maze.end =>
        /\ FlsReturned => lowest_score = Some(0)
        /\ SeatsReturned => best_seats = {maze.start}

C6_Witness ==
    /\ maze.start = maze.end
    /\ maze.walls # Border
    /\ pc = "done"
    /\ lowest_score = Some(0)
    /\ best_seats = {maze.start}

(***************************************************************************)
(* C8: for a fixed maze, the cost returned by find_lowest_score and the    *)
(* set returned by find_lowest_score_seats are the same in any two runs,   *)
(* whichever of several equal-cost entries the heap pops first: whatever   *)
(* the second run returns equals what the first run returned.              *)
(***************************************************************************)
C8_SameResultInBothRuns ==
    run = 2 =>
        /\ FlsReturned => lowest_score = first_score
        /\ SeatsReturned => best_seats = first_seats

\* the second run has ended on a maze with two equal-cost best paths, whose
\* entries tie in the heap
C8_Witness ==
    /\ run = 2
    /\ pc = "done"
    /\ first_score = Some(2003)
    /\ Cardinality(first_seats) = 5
    /\ best_seats = first_seats

(***************************************************************************)
(* C9: in both searches every pop returns an entry whose score_so_far is   *)
(* minimal among the entries then in the queue, and the popped scores are  *)
(* non-decreasing over the run.  (A step taken with a non-empty queue is   *)
(* one loop iteration, and score_so_far' is the score it popped.)          *)
(***************************************************************************)
C9_PopsInScoreOrder ==
    [][ /\ (pc = "find_lowest_score" /\ queue # EmptyBag) =>
              /\ \A f \in BagToSet(queue) : score_so_far' <= f.score_so_far
              /\ score_so_far <= score_so_far'
        /\ (pc = "find_lowest_score_seats" /\ queue2 # EmptyBag) =>
              /\ \A f \in BagToSet(queue2) : score_so_far' <= f.score_so_far
              /\ score_so_far <= score_so_far'
      ]_vars

\* an entry was popped while entries of a higher score wait in the queue
C9_Witness ==
    /\ pc = "find_lowest_score"
    /\ score_so_far > 0
    /\ \E f \in BagToSet(queue) : f.score_so_far > score_so_far + 1000
    /\ \E f \in BagToSet(queue) : f.score_so_far = score_so_far

(***************************************************************************)
(* src/lib.rs : parse_maze                                                 *)
(***************************************************************************)
MaxLines == 2

MaxLineLen == 2

MazeChars == {"S", "E", "#", "."}

\* the lines input.lines() yields: any characters, any lengths
Lines == UNION {[1..n -> MazeChars] : n \in 0..MaxLineLen}

MazeInputs == UNION {[1..n -> Lines] : n \in 0..MaxLines}

\* .rev() of the line iterator
rev(lines) == [k \in 1..Len(lines) |-> lines[Len(lines) + 1 - k]]

\* the body of the inner for loop, for the character at column x of row y
parse_char(acc, c, x, y) ==
    IF c = "S" THEN [acc EXCEPT !.start = Some(Coord(x, y))]
    ELSE IF c = "E" THEN [acc EXCEPT !.end = Some(Coord(x, y))]
    ELSE IF c = "#" THEN [acc EXCEPT !.walls = @ \cup {Coord(x, y)}]
    ELSE acc

RECURSIVE parse_line(_, _, _, _)
\* for (x, c) in line.chars().enumerate(), from the 1-based index k on
parse_line(acc, line, y, k) ==
    IF k > Len(line) THEN acc
    ELSE parse_line(parse_char(acc, line[k], k - 1, y), line, y, k + 1)

RECURSIVE parse_lines(_, _, _)
\* for (y, line) in <lines>.enumerate(), from the 1-based index k on
parse_lines(acc, lines, k) ==
    IF k > Len(lines) THEN acc
    ELSE parse_lines(parse_line(acc, lines[k], k - 1, 1), lines, k + 1)

\* parse_maze: the record pm holds after the call, a Maze or the panic of
\* the first failing expect
parse_maze(input) ==
    LET acc == parse_lines([start |-> None, end |-> None, walls |-> {}], rev(input), 1)
    IN  IF acc.start = None
          THEN [pc |-> "panicked", input |-> input,
                message |-> "Did not find starting position S"]
          ELSE IF acc.end = None
            THEN [pc |-> "panicked", input |-> input,
                  message |-> "Did not find end position E"]
            ELSE [pc |-> "returned", input |-> input,
                  maze |-> [start |-> acc.start[1], end |-> acc.end[1], walls |-> acc.walls]]

ParseMaze ==
    /\ pm.pc = "call"
    /\ pm' = parse_maze(pm.input)
    /\ UNCHANGED <<vars16, vars18, varsWrap, tr, d9, p2, d17, d21, d23, varsLate>>

InitParse ==
    /\ pm \in {[pc |-> "call", input |-> i] : i \in MazeInputs}
    /\ Idle16
    /\ Idle18
    /\ IdleWrap
    /\ IdleLate
    /\ tr = Off
    /\ d9 = Off
    /\ p2 = Off
    /\ d17 = Off
    /\ d21 = Off
    /\ d23 = Off

NextParse == ParseMaze

SpecParse == InitParse /\ [][NextParse]_vars

\* the character the input shows at a coordinate (y counted from the last line)
CharAt(input, c) == input[Len(input) - c.y][c.x + 1]

InputCoords(input) ==
    UNION {{Coord(x - 1, Len(input) - l) : x \in 1..Len(input[l])} : l \in 1..Len(input)}

Has(input, ch) == \E c \in InputCoords(input) : CharAt(input, c) = ch

Rectangular(input) == \A k, l \in 1..Len(input) : Len(input[k]) = Len(input[l])

(***************************************************************************)
(* C11 as stated: parse_maze fails when the grid has no 'S', when it has   *)
(* no 'E', and also when its rows have different lengths; for a            *)
(* rectangular grid with both markers it returns the start, the end and    *)
(* the set of '#' cells.                                                   *)
(* Violated: the row lengths are never compared, a ragged grid with both   *)
(* markers is parsed.                                                      *)
(***************************************************************************)
C11_RaggedOrUnmarkedFails ==
    pm.pc \in {"returned", "panicked"} =>
        IF ~Has(pm.input, "S") \/ ~Has(pm.input, "E") \/ ~Rectangular(pm.input)
          THEN pm.pc = "panicked"
          ELSE /\ pm.pc = "returned"
               /\ CharAt(pm.input, pm.maze.start) = "S"
               /\ CharAt(pm.input, pm.maze.end) = "E"
               /\ pm.maze.walls = {c \in InputCoords(pm.input) : CharAt(pm.input, c) = "#"}

(***************************************************************************)
(* src/lib.rs : Direction::turn_left, turn_right                           *)
(* src/bin/16.rs : State::step, turn_left, turn_right                      *)
(* tr.state is the State the operations are applied to, tr.prev the State  *)
(* before the last operation tr.last, tr.streak the number of times        *)
(* tr.last has been applied in a row since the direction was tr.from       *)
(***************************************************************************)
MaxWalk == 2

Walk == (0 - MaxWalk)..MaxWalk

\* one operation op of State applied to tr.state, giving next
Apply(op, next) ==
    /\ tr.pc = "run"
    /\ tr' = [pc |-> "run", state |-> next, prev |-> tr.state, last |-> op,
              streak |-> IF tr.last = op /\ tr.streak < 4 THEN tr.streak + 1 ELSE 1,
              from |-> IF tr.last = op /\ tr.streak < 4 THEN tr.from ELSE tr.state.dir]
    /\ UNCHANGED <<vars16, vars18, varsWrap, pm, d9, p2, d17, d21, d23, varsLate>>

TurnLeft == Apply("turn_left", State_turn_left(tr.state))

TurnRight == Apply("turn_right", State_turn_right(tr.state))

\* the walk is cut off at MaxWalk cells from the origin
Step ==
    /\ State_step(tr.state).pos.x \in Walk
    /\ State_step(tr.state).pos.y \in Walk
    /\ Apply("step", State_step(tr.state))

InitTurn ==
    /\ tr \in {[pc |-> "run", state |-> State(Coord(x, y), d), prev |-> State(Coord(x, y), d),
                last |-> "new", streak |-> 0, from |-> d] :
                    x \in Walk, y \in Walk, d \in Direction}
    /\ Idle16
    /\ Idle18
    /\ IdleWrap
    /\ IdleLate
    /\ pm = Off
    /\ d9 = Off
    /\ p2 = Off
    /\ d17 = Off
    /\ d21 = Off
    /\ d23 = Off

NextTurn ==
    \/ TurnLeft
    \/ TurnRight
    \/ Step

SpecTurn == InitTurn /\ [][NextTurn]_vars

(***************************************************************************)
(* C12: turn_left and turn_right are total on {Up, Down, Left, Right},     *)
(* mutually inverse and without fixed point, and the same turn gives the   *)
(* original direction again after exactly four applications, not after     *)
(* one, two or three; on a day-16 State a turn changes only dir and step   *)
(* changes only pos.                                                       *)
(***************************************************************************)
C12_TurnsAreInverseOfOrderFour ==
    tr.pc = "run" =>
        LET d == tr.state.dir IN
        /\ turn_left(d) \in Direction
        /\ turn_right(d) \in Direction
        /\ turn_left(turn_right(d)) = d
        /\ turn_right(turn_left(d)) = d
        /\ turn_left(d) # d
        /\ turn_right(d) # d
        /\ (tr.last \in {"turn_left", "turn_right"} /\ tr.streak = 4) => d = tr.from
        /\ (tr.last \in {"turn_left", "turn_right"} /\ tr.streak \in 1..3) => d # tr.from
        /\ tr.last \in {"turn_left", "turn_right"} =>
               (tr.state.pos = tr.prev.pos /\ tr.state.dir # tr.prev.dir)
        /\ tr.last = "turn_left" => tr.prev.dir = turn_right(d)
        /\ tr.last = "turn_right" => tr.prev.dir = turn_left(d)
        /\ tr.last = "step" =>
               (tr.state.dir = tr.prev.dir /\ tr.state.pos # tr.prev.pos)

\* four left turns in a row, made after a step, are back at the direction
\* they started from
C12_Witness ==
    /\ tr.pc = "run"
    /\ tr.last = "turn_left"
    /\ tr.streak = 4
    /\ tr.state.dir = tr.from
    /\ tr.state.pos # Coord(0, 0)

(***************************************************************************)
(* src/bin/16.rs : find_lowest_score on corridors                          *)
(* A corridor of n steps leaves the start to the right for k steps and     *)
(* then, if k < n, runs on in the direction d: upwards or downwards, or,   *)
(* for k = 0, also to the left, behind the start.  Every other cell of the *)
(* surrounding box is a wall.                                              *)
(***************************************************************************)
CorridorLen == 5

CorridorBox == {Coord(x, y) : x \in 0..(2 * CorridorLen + 2), y \in 0..(2 * CorridorLen + 2)}

CorridorStart == Coord(CorridorLen + 1, CorridorLen + 1)

\* the cell j steps in direction d after k steps to the right
CorridorCell(k, j, d) ==
    Coord(CorridorStart.x + k + j * to_dx_dy(d)[1], CorridorStart.y + j * to_dx_dy(d)[2])

CorridorMaze(n, k, d) ==
    [start |-> CorridorStart,
     end   |-> CorridorCell(k, n - k, d),
     walls |-> CorridorBox \ ({CorridorCell(i, 0, d) : i \in 0..k}
                                \cup {CorridorCell(k, j, d) : j \in 1..(n - k)})]

CorridorMazes ==
    {CorridorMaze(n, k, d) : n \in 1..CorridorLen, k \in 0..CorridorLen, d \in {"Up", "Down"}}
        \cup {CorridorMaze(n, 0, "Left") : n \in 1..CorridorLen}

Init13 ==
    /\ maze \in {m \in CorridorMazes : m.end \notin m.walls}
    /\ Start16(maze)
    /\ run = 1
    /\ first_score = None
    /\ first_seats = {}
    /\ Idle18
    /\ IdleWrap
    /\ IdleRest

Spec13 == Init13 /\ [][Next16]_vars

\* the number of steps of the corridor and of the 90-degree turns it requires
CorridorSteps == Cardinality(CorridorBox \ maze.walls) - 1

CorridorTurns ==
    IF maze.end.y # maze.start.y THEN 1
    ELSE IF maze.end.x > maze.start.x THEN 0 ELSE 2

(***************************************************************************)
(* C13 as stated: with the end at the far end of a straight 5-step         *)
(* corridor ahead of the start the lowest score is 5; when the 5-step      *)
(* corridor requires one 90-degree turn the lowest score is 1006.          *)
(* Violated: five steps and one turn cost 5 + 1000 = 1005.                 *)
(***************************************************************************)
C13_FiveStepsOneTurnCost1006 ==
    (FlsReturned /\ CorridorSteps = 5 /\ CorridorTurns <= 1)
        => lowest_score = Some(IF CorridorTurns = 0 THEN 5 ELSE 1006)

(***************************************************************************)
(* C13 amended: on a corridor of n steps the lowest score is n when the    *)
(* corridor is straight ahead of the start and 1000 + n when it requires   *)
(* one 90-degree turn: 5 and 1005 for the 5-step corridor.                 *)
(***************************************************************************)
C13_CorridorCostsStepsPlus1000PerTurn ==
    (FlsReturned /\ CorridorTurns <= 1) =>
        /\ lowest_score = Some(CorridorSteps + 1000 * CorridorTurns)
        /\ (CorridorSteps = 5 /\ CorridorTurns = 0) => lowest_score = Some(5)
        /\ (CorridorSteps = 5 /\ CorridorTurns = 1) => lowest_score = Some(1005)

\* the 5-step corridor that turns upwards after two steps has been solved
C13_Witness ==
    /\ FlsReturned
    /\ maze = CorridorMaze(5, 2, "Up")
    /\ lowest_score = Some(1005)

(***************************************************************************)
(* src/bin/09.rs : parse, part_one                                         *)
(* d9 holds the locals of part_one; the input is the sequence of the       *)
(* character codes of the disk map, with or without the final newline.     *)
(***************************************************************************)
MaxFiles == 3

MaxDigit == 3

\* c as u8 for the characters '0'..'9' and '\n'
Digit0 == 48

Newline == 10

\* the disk maps of 1..MaxFiles files: a file length, then (free, file) pairs
DiskMaps == UNION {[1..(2 * n - 1) -> 0..MaxDigit] : n \in 1..MaxFiles}

\* the input text of a disk map: its digits as characters, with or without
\* the newline that ends the puzzle file
DiskInput(m, newline) ==
    [k \in 1..(Len(m) + IF newline THEN 1 ELSE 0) |->
        IF k <= Len(m) THEN Digit0 + m[k] ELSE Newline]

\* .step_by(2) of a sequence: its elements at the 0-based indices 0, 2, 4, ...
step_by_2(sq) == [k \in 1..((Len(sq) + 1) \div 2) |-> sq[2 * k - 1]]

\* parse: (files, free_space); the slice input[1..(input.len() - 1)] is
\* SubSeq(input, 2, Len(input) - 1)
parse(input) ==
    [files |-> [k \in 1..Len(step_by_2(input)) |-> step_by_2(input)[k] - Digit0],
     free_space |-> LET sl == step_by_2(SubSeq(input, 2, Len(input) - 1))
                    IN  [k \in 1..Len(sl) |-> sl[k] - Digit0]]

\* sum of i * file_id for i in from..(from + size - 1)
BlockSum(from, size, file_id) ==
    file_id * (size * from + (size * (size - 1)) \div 2)

D9Others == <<vars16, vars18, varsWrap, pm, tr, p2, d17, d21, d23, varsLate>>

\* lines 30-45: the loop test holds, the file at left_ptr is added to the
\* checksum and free_space[left_ptr] is read
D9File ==
    /\ d9.pc = "while"
    /\ d9.left_ptr <= d9.right_ptr
    /\ LET file_size == d9.files[d9.left_ptr + 1]
           after == [d9 EXCEPT !.checksum = @ + BlockSum(d9.curr_block_idx, file_size, d9.left_ptr),
                               !.curr_block_idx = @ + file_size]
       IN  IF d9.left_ptr >= Len(d9.free_space)
             THEN d9' = [after EXCEPT !.pc = "panicked"]
             ELSE d9' = [after EXCEPT !.pc = "fill",
                                      !.free_space_to_fill = d9.free_space[d9.left_ptr + 1]]
    /\ UNCHANGED D9Others

\* lines 46-71: one iteration of the inner loop
D9Fill ==
    /\ d9.pc = "fill"
    /\ d9.free_space_to_fill > 0
    /\ d9.left_ptr < d9.right_ptr
    /\ LET last_file_size == d9.files[d9.right_ptr + 1]
           amount_to_fill == IF last_file_size < d9.free_space_to_fill
                               THEN last_file_size ELSE d9.free_space_to_fill
       IN  d9' = [d9 EXCEPT
                    !.checksum = @ + BlockSum(d9.curr_block_idx, amount_to_fill, d9.right_ptr),
                    !.curr_block_idx = @ + amount_to_fill,
                    !.free_space_to_fill = @ - amount_to_fill,
                    !.right_ptr = IF last_file_size - amount_to_fill = 0 THEN @ - 1 ELSE @,
                    !.files = IF last_file_size - amount_to_fill = 0 THEN @
                              ELSE [@ EXCEPT ![d9.right_ptr + 1] = @ - amount_to_fill]]
    /\ UNCHANGED D9Others

\* line 74: the inner loop has ended
D9Next ==
    /\ d9.pc = "fill"
    /\ ~(d9.free_space_to_fill > 0 /\ d9.left_ptr < d9.right_ptr)
    /\ d9' = [d9 EXCEPT !.left_ptr = @ + 1, !.pc = "while"]
    /\ UNCHANGED D9Others

\* line 77
D9Return ==
    /\ d9.pc = "while"
    /\ d9.left_ptr > d9.right_ptr
    /\ d9' = [d9 EXCEPT !.pc = "returned", !.result = Some(d9.checksum)]
    /\ UNCHANGED D9Others

\* lines 22-27: parse is called and the locals are set up; the slice of
\* parse panics when its start 1 exceeds its end input.len() - 1
part_one_entry(input) ==
    [pc |-> IF Len(input) - 1 < 1 THEN "panicked" ELSE "while", input |-> input,
     files |-> parse(input).files, free_space |-> parse(input).free_space,
     left_ptr |-> 0, right_ptr |-> Len(parse(input).files) - 1, curr_block_idx |-> 0,
     checksum |-> 0, free_space_to_fill |-> 0, result |-> None]

D9Parse ==
    /\ d9.pc = "call"
    /\ d9' = part_one_entry(d9.input)
    /\ UNCHANGED D9Others

Init9 ==
    /\ \E m \in DiskMaps, newline \in BOOLEAN :
            d9 = [pc |-> "call", input |-> DiskInput(m, newline)]
    /\ Idle16
    /\ Idle18
    /\ IdleWrap
    /\ IdleLate
    /\ pm = Off
    /\ tr = Off
    /\ p2 = Off
    /\ d17 = Off
    /\ d21 = Off
    /\ d23 = Off

Next9 ==
    \/ D9Parse
    \/ D9File
    \/ D9Fill
    \/ D9Next
    \/ D9Return

Spec9 == Init9 /\ [][Next9]_vars

\* the disk map an input was made from
DigitsOf(input) ==
    LET n == IF input[Len(input)] = Newline THEN Len(input) - 1 ELSE Len(input)
    IN  [k \in 1..n |-> input[k] - Digit0]

RECURSIVE BlocksOf(_, _)
\* the blocks of a disk map from its k-th digit on: a file id or -1 (free)
BlocksOf(m, k) ==
    IF k > Len(m) THEN << >>
    ELSE [j \in 1..m[k] |-> IF k % 2 = 1 THEN (k - 1) \div 2 ELSE 0 - 1] \o BlocksOf(m, k + 1)

RECURSIVE Compacted(_)
\* move the last file block into the leftmost free block until no free
\* block lies left of a file block
Compacted(b) ==
    LET fileAt == {i \in 1..Len(b) : b[i] >= 0}
        freeAt == {i \in 1..Len(b) : b[i] < 0}
    IN  IF fileAt = {} \/ freeAt = {} THEN b
        ELSE LET last  == CHOOSE i \in fileAt : \A j \in fileAt : j <= i
                 first == CHOOSE i \in freeAt : \A j \in freeAt : i <= j
             IN  IF first > last THEN b
                 ELSE Compacted([b EXCEPT ![first] = b[last], ![last] = 0 - 1])

RECURSIVE ChecksumOf(_, _)
\* the sum of position * id over the file blocks, positions counted from 0
ChecksumOf(b, k) ==
    IF k > Len(b) THEN 0
    ELSE (IF b[k] >= 0 THEN (k - 1) * b[k] ELSE 0) + ChecksumOf(b, k + 1)

CompactedChecksum(input) == ChecksumOf(Compacted(BlocksOf(DigitsOf(input), 1)), 1)

(***************************************************************************)
(* C14: for every disk map of alternating file/free digits that starts and *)
(* ends with a file length, part_one returns, without an out-of-range      *)
(* index or other panic, the checksum (sum of position * file id) of the   *)
(* layout obtained by repeatedly moving the last file block into the       *)
(* leftmost free block.                                                    *)
(* Violated: free_space[left_ptr] is read for the last file too, which has *)
(* no free space after it.                                                 *)
(***************************************************************************)
C14_ReturnsCompactedChecksum ==
    d9.pc \in {"returned", "panicked"} =>
        /\ d9.pc = "returned"
        /\ d9.result = Some(CompactedChecksum(d9.input))

(***************************************************************************)
(* src/bin/18.rs : part_two                                                *)
(* p2 holds the locals of part_two.  The first TakeBytes bytes enter only  *)
(* as the set `walls` they are collected into (one to TakeBytes cells);    *)
(* the bytes after them are drawn one per iteration of the for loop, k     *)
(* counts them, so that the loop index i is TakeBytes + k - 1, and the     *)
(* list ends after at most MoreBytes of them.  Three fields record the     *)
(* history of the run: open, whether the walls of the prefix left a path;  *)
(* first, the first byte after which no path was left, if any; tested,     *)
(* whether the last iteration compared reachable with the end borders.     *)
(***************************************************************************)
MoreBytes == 2

get_diagonal_neighbors(self, c) ==
    filter_in_bounds(self, <<Coord_step(c, 1, -1), Coord_step(c, -1, 1),
                             Coord_step(c, 1, 1), Coord_step(c, -1, -1)>>)

left_borders(self) == {Coord(0, y) : y \in 0..(self.y - 1)}

right_borders(self) == {Coord(self.x - 1, y) : y \in 0..(self.y - 1)}

bottom_borders(self) == {Coord(x, 0) : x \in 0..(self.x - 1)}

top_borders(self) == {Coord(x, self.y - 1) : x \in 0..(self.x - 1)}

starts == left_borders(dimensions) \cup top_borders(dimensions)

ends == right_borders(dimensions) \cup bottom_borders(dimensions)

\* get_neighbors(c).chain(get_diagonal_neighbors(c)) as a set
neighbors_chain(c) ==
    LET sq == get_neighbors(dimensions, c) \o get_diagonal_neighbors(dimensions, c)
    IN  {sq[k] : k \in 1..Len(sq)}

RECURSIVE recompute_reachable(_, _)
\* lines 157-185: extend reachable by the walls next to it until none is new
recompute_reachable(reachable, walls) ==
    LET new_reachable ==
            {n \in UNION {neighbors_chain(w) : w \in reachable} :
                n \in walls /\ n \notin reachable}
    IN  IF new_reachable = {} THEN reachable
        ELSE recompute_reachable(reachable \cup new_reachable, walls)

\* lines 137-148, walls being the set after the insertion of new_wall
needs_recompute(i, new_wall, walls, reachable) ==
    IF i = Cardinality(walls) THEN TRUE
    ELSE \/ \E c \in neighbors_chain(new_wall) : c \in reachable
         \/ new_wall \in starts

P2Others == <<vars16, vars18, varsWrap, pm, tr, d9, d17, d21, d23, varsLate>>

\* a wall-free 4-directional path leads from (0,0) to the opposite corner
PathExists(walls) == Coord(0, 0) \notin walls /\ ShortestLength(walls) # None

\* lines 103-130
P2Enter ==
    /\ p2.pc = "call"
    /\ p2' = [pc |-> "for", walls |-> p2.prefix, reachable |-> p2.prefix \cap starts,
              k |-> 0, result |-> None,
              open |-> PathExists(p2.prefix), first |-> None, tested |-> FALSE]
    /\ UNCHANGED P2Others

\* lines 132-194: one iteration of the for loop, for the next byte new_wall
P2Byte ==
    /\ p2.pc = "for"
    /\ p2.k < MoreBytes
    /\ \E new_wall \in GridCells :
        LET i == TakeBytes + p2.k
            walls == p2.walls \cup {new_wall}
            seen == [p2 EXCEPT !.k = @ + 1, !.walls = walls,
                               !.first = IF @ = None /\ ~PathExists(walls)
                                           THEN Some(new_wall) ELSE @]
        IN  IF ~needs_recompute(i, new_wall, walls, p2.reachable)
              THEN p2' = [seen EXCEPT !.tested = FALSE]
              ELSE LET reachable == recompute_reachable(p2.reachable \cup {new_wall}, walls)
                   IN  p2' = [seen EXCEPT !.reachable = reachable, !.tested = TRUE,
                                          !.pc = IF reachable \cap ends # {}
                                                   THEN "returned" ELSE "for",
                                          !.result = IF reachable \cap ends # {}
                                                       THEN Some(new_wall) ELSE None]
    /\ UNCHANGED P2Others

\* line 196: the bytes are exhausted
P2None ==
    /\ p2.pc = "for"
    /\ p2' = [p2 EXCEPT !.pc = "returned", !.result = None, !.tested = FALSE]
    /\ UNCHANGED P2Others

InitP2 ==
    /\ p2 \in {[pc |-> "call", prefix |-> w] : w \in WallSets \ {{}}}
    /\ Idle16
    /\ Idle18
    /\ IdleWrap
    /\ IdleLate
    /\ pm = Off
    /\ tr = Off
    /\ d9 = Off
    /\ d17 = Off
    /\ d21 = Off
    /\ d23 = Off

NextP2 ==
    \/ P2Enter
    \/ P2Byte
    \/ P2None

SpecP2 == InitP2 /\ [][NextP2]_vars

Touching(a, b) == a # b /\ a.x - b.x \in -1..1 /\ a.y - b.y \in -1..1

RECURSIVE Connected8(_, _)
\* the walls 8-connected to a wall of the set from
Connected8(from, walls) ==
    LET more == {w \in walls \ from : \E f \in from : Touching(w, f)}
    IN  IF more = {} THEN from ELSE Connected8(from \cup more, walls)

(***************************************************************************)
(* C15: part_two returns the first byte after the initial prefix whose     *)
(* addition leaves no 4-directional wall-free path from (0,0) to the       *)
(* opposite corner, and None only if no byte does so (stated here for the  *)
(* byte lists whose prefix leaves a path); `reachable` is, whenever it is  *)
(* tested against the end borders, the full set of walls 8-connected to a  *)
(* wall on the start borders.                                              *)
(* Violated: the walls of the prefix joined to a start border are never    *)
(* collected, so a byte that touches only them is passed over.             *)
(***************************************************************************)
C15_ReturnsFirstBlockingByte ==
    /\ (p2.pc = "returned" /\ p2.open) => p2.result = p2.first
    /\ (p2.pc \in {"for", "returned"} /\ p2.tested)
            => p2.reachable = Connected8(p2.walls \cap starts, p2.walls)

(***************************************************************************)
(* src/bin/17.rs : Bits1, Bits2, part_two_inner                            *)
(* A u64 is a natural number; the bitwise operators are computed bit by    *)
(* bit.  The calls made here keep idx + 2 below MaxIdx + 3, far inside     *)
(* both representations, so that no shift loses a bit.                     *)
(***************************************************************************)
MaxIdx == 5

MaxProgram == 2

MAX_LEN_BITS == 3 * 16 + 7

RECURSIVE BitAnd(_, _)
BitAnd(a, b) ==
    IF a = 0 \/ b = 0 THEN 0
    ELSE (IF a % 2 = 1 /\ b % 2 = 1 THEN 1 ELSE 0) + 2 * BitAnd(a \div 2, b \div 2)

RECURSIVE BitOr(_, _)
BitOr(a, b) ==
    IF a = 0 THEN b ELSE IF b = 0 THEN a
    ELSE (IF a % 2 = 1 \/ b % 2 = 1 THEN 1 ELSE 0) + 2 * BitOr(a \div 2, b \div 2)

RECURSIVE BitXor(_, _)
BitXor(a, b) ==
    IF a = 0 THEN b ELSE IF b = 0 THEN a
    ELSE (IF a % 2 # b % 2 THEN 1 ELSE 0) + 2 * BitXor(a \div 2, b \div 2)

\* a << n
Shl(a, n) == a * 2 ^ n

\* !mask & a
AndNot(mask, a) == a - BitAnd(a, mask)

\* enum Bit
Unset == [tag |-> "Unset"]

Set(val) == [tag |-> "Set", val |-> val]

\* Bit::unwrap
Bit_unwrap(self) == IF self = Unset THEN 0 ELSE IF self.val THEN 1 ELSE 0

\* Bit::check
Bit_check(self, other) ==
    IF self # Unset /\ other # Unset THEN self.val = other.val ELSE TRUE

\* Bits1::new: the array bits, index 0 the least significant bit
Bits1_new == [i \in 0..(MAX_LEN_BITS - 1) |-> Unset]

\* Bits1::set_3_bits
Bits1_set_3_bits(self, idx, val) ==
    LET new_bits == [self EXCEPT ![idx + 2] = Set(BitAnd(val, Shl(1, 2)) # 0),
                                 ![idx + 1] = Set(BitAnd(val, Shl(1, 1)) # 0),
                                 ![idx] = Set(BitAnd(val, 1) # 0)]
    IN  IF \E i \in 0..2 : ~Bit_check(self[idx + i], new_bits[idx + i])
          THEN None
          ELSE Some(new_bits)

RECURSIVE Bits1_calc_from(_, _, _)
\* the value the loop of Bits1::calc builds from the bits lo..hi, the bit lo
\* counted as bit 0: result = (result << 1) + bit, taken over the upper
\* half and then continued over the lower half
Bits1_calc_from(self, lo, hi) ==
    IF lo = hi THEN Bit_unwrap(self[lo])
    ELSE LET mid == (lo + hi) \div 2
         IN  Shl(Bits1_calc_from(self, mid + 1, hi), mid + 1 - lo)
                + Bits1_calc_from(self, lo, mid)

Bits1_calc(self) == Bits1_calc_from(self, 0, MAX_LEN_BITS - 1)

\* Bits2::new
Bits2_new == [num |-> 0, constrained |-> 0]

\* the mutant of Bits2_contradiction that compares unconstrained bits too
Bits2_contradiction_unmasked(self, idx, val) ==
    BitXor(BitAnd(self.num, Shl(7, idx)), Shl(val, idx)) > 0

\* lines 341-343
Bits2_contradiction(self, idx, val) ==
    LET mask == BitAnd(self.constrained, Shl(7, idx))
    IN  BitXor(BitAnd(self.num, mask), BitAnd(Shl(val, idx), mask)) > 0

\* Bits2::set_3_bits
Bits2_set_3_bits(self, idx, val) ==
    IF Bits2_contradiction(self, idx, val) THEN None
    ELSE Some([num |-> BitOr(AndNot(Shl(7, idx), self.num), Shl(val, idx)),
               constrained |-> BitOr(self.constrained, Shl(7, idx))])

Bits2_calc(self) == self.num

\* the trait Bits, B being "Bits1" or "Bits2"
Bits_new(B) == IF B = "Bits1" THEN Bits1_new ELSE Bits2_new

Bits_set_3_bits(B, self, idx, val) ==
    IF B = "Bits1" THEN Bits1_set_3_bits(self, idx, val) ELSE Bits2_set_3_bits(self, idx, val)

Bits_calc(B, self) == IF B = "Bits1" THEN Bits1_calc(self) ELSE Bits2_calc(self)

\* lines 162-164: the smaller of two optional values
min_reg_a(a, b) ==
    IF a = None THEN b ELSE IF b = None THEN a
    ELSE IF b[1] < a[1] THEN b ELSE a

RECURSIVE search(_, _, _, _)
RECURSIVE search_from(_, _, _, _, _, _)
\* lines 168-189 for the values constrained_bits..7 of the inner for loop:
\* the least calc() over the states that descend from (bits, output_idx)
search_from(B, program, bits, output_idx, constrained_bits, least) ==
    IF constrained_bits > 7 THEN least
    ELSE LET val == program[output_idx + 1]
             curr_bits_idx == output_idx * 3
             a_mod_8 == BitXor(BitXor(constrained_bits, val), 2)
             constrained_bits_idx == curr_bits_idx + BitXor(a_mod_8, 6)
             first == Bits_set_3_bits(B, bits, curr_bits_idx, a_mod_8)
             second == IF first = None THEN None
                       ELSE Bits_set_3_bits(B, first[1], constrained_bits_idx, constrained_bits)
         IN  search_from(B, program, bits, output_idx, constrained_bits + 1,
                         IF second = None THEN least
                         ELSE min_reg_a(least, search(B, program, second[1], output_idx + 1)))

\* lines 157-190 for one State of the queue and the states pushed for it
search(B, program, bits, output_idx) ==
    IF output_idx = Len(program) THEN Some(Bits_calc(B, bits))
    ELSE search_from(B, program, bits, output_idx, 0, None)

\* part_two_inner::<B> on the parsed program
part_two_inner(B, program) == search(B, program, Bits_new(B), 0)

Programs == UNION {[1..n -> 0..7] : n \in 0..MaxProgram}

D17Others == <<vars16, vars18, varsWrap, pm, tr, d9, p2, d21, d23, varsLate>>

\* set_3_bits(idx, val) called on the two representations of the same bits
Set3Bits ==
    /\ d17.pc \in {"new", "bits"}
    /\ d17.b1 # None
    /\ d17.b2 # None
    /\ \E idx \in 0..MaxIdx, val \in 0..7 :
        d17' = [pc |-> "bits", idx |-> idx, val |-> val,
                b1 |-> Bits1_set_3_bits(d17.b1[1], idx, val),
                b2 |-> Bits2_set_3_bits(d17.b2[1], idx, val),
                calls |-> IF d17.calls < 3 THEN d17.calls + 1 ELSE 3]
    /\ UNCHANGED D17Others

\* test_part_two_bit_representations: part_two_inner with either representation
PartTwoInner ==
    /\ d17.pc = "new"
    /\ \E program \in Programs :
        d17' = [pc |-> "returned", program |-> program,
                output1 |-> part_two_inner("Bits1", program),
                output2 |-> part_two_inner("Bits2", program)]
    /\ UNCHANGED D17Others

Init17 ==
    /\ d17 = [pc |-> "new", idx |-> 0, val |-> 0, b1 |-> Some(Bits1_new),
              b2 |-> Some(Bits2_new), calls |-> 0]
    /\ Idle16
    /\ Idle18
    /\ IdleWrap
    /\ IdleLate
    /\ pm = Off
    /\ tr = Off
    /\ d9 = Off
    /\ p2 = Off
    /\ d21 = Off
    /\ d23 = Off

Next17 ==
    \/ Set3Bits
    \/ PartTwoInner

Spec17 == Init17 /\ [][Next17]_vars

(***************************************************************************)
(* C16: after every sequence of set_3_bits(idx, val) calls from new()      *)
(* (val < 8, idx + 2 inside both representations) Bits1 and Bits2 have     *)
(* reported a contradiction at the same call or have both succeeded, and   *)
(* then calc() of the two results is equal; part_two_inner::<Bits1> and    *)
(* part_two_inner::<Bits2> return the same value on the same program.      *)
(***************************************************************************)
C16_Bits1AndBits2Agree ==
    /\ d17.pc \in {"new", "bits"} =>
        /\ (d17.b1 = None) <=> (d17.b2 = None)
        /\ d17.b1 # None => Bits1_calc(d17.b1[1]) = Bits2_calc(d17.b2[1])
    /\ d17.pc = "returned" => d17.output1 = d17.output2

\* the third call of a sequence, with val 7, has met a contradiction in both
\* representations
C16_Witness ==
    /\ d17.pc = "bits"
    /\ d17.calls = 3
    /\ d17.b1 = None
    /\ d17.b2 = None
    /\ d17.val = 7

(***************************************************************************)
(* src/bin/21.rs : keypads, find_shortest_path                             *)
(* A String is the sequence of its characters.  d21 holds the arguments of *)
(* find_shortest_path, the path it returned, and the position curr and the *)
(* number k of characters taken while the path is followed from start as   *)
(* translate follows a sequence; pressed counts the 'A's met.              *)
(***************************************************************************)
NUMERIC_KEYPAD ==
    [button_mapping |->
        [c \in {"0", "A", "1", "2", "3", "4", "5", "6", "7", "8", "9"} |->
            CASE c = "0" -> Coord(1, 0)
              [] c = "A" -> Coord(2, 0)
              [] c = "1" -> Coord(0, 1)
              [] c = "2" -> Coord(1, 1)
              [] c = "3" -> Coord(2, 1)
              [] c = "4" -> Coord(0, 2)
              [] c = "5" -> Coord(1, 2)
              [] c = "6" -> Coord(2, 2)
              [] c = "7" -> Coord(0, 3)
              [] c = "8" -> Coord(1, 3)
              [] c = "9" -> Coord(2, 3)],
     gap_y |-> 0]

DIRECTIONAL_KEYPAD ==
    [button_mapping |->
        [c \in {"<", "v", ">", "^", "A"} |->
            CASE c = "<" -> Coord(0, 0)
              [] c = "v" -> Coord(1, 0)
              [] c = ">" -> Coord(2, 0)
              [] c = "^" -> Coord(1, 1)
              [] c = "A" -> Coord(2, 1)],
     gap_y |-> 1]

DIRECTIONS ==
    [c \in {"<", ">", "^", "v"} |->
        CASE c = "<" -> "Left"
          [] c = ">" -> "Right"
          [] c = "^" -> "Up"
          [] c = "v" -> "Down"]

\* Coord::diff
Coord_diff(self, other) == <<self.x - other.x, self.y - other.y>>

\* c.repeat(n)
repeat(c, n) == [k \in 1..n |-> c]

dx_to_path(dx) ==
    IF dx = 0 THEN << >> ELSE IF dx > 0 THEN repeat(">", dx) ELSE repeat("<", 0 - dx)

dy_to_path(dy) ==
    IF dy = 0 THEN << >> ELSE IF dy > 0 THEN repeat("^", dy) ELSE repeat("v", 0 - dy)

\* the mutant of find_shortest_path_inner without the two rules for the gap
find_shortest_path_inner_no_gap_rule(keypad, start, end) ==
    IF start = end THEN << >>
    ELSE LET s == keypad.button_mapping[start]
             t == keypad.button_mapping[end]
             dx == Coord_diff(t, s)[1]
             dy == Coord_diff(t, s)[2]
         IN  IF dx = 0 THEN dy_to_path(dy)
             ELSE IF dy = 0 THEN dx_to_path(dx)
             ELSE IF dx < 0 THEN dx_to_path(dx) \o dy_to_path(dy)
             ELSE dy_to_path(dy) \o dx_to_path(dx)

find_shortest_path_inner(keypad, start, end) ==
    IF start = end THEN << >>
    ELSE LET s == keypad.button_mapping[start]
             t == keypad.button_mapping[end]
             dx == Coord_diff(t, s)[1]
             dy == Coord_diff(t, s)[2]
         IN  IF dx = 0 THEN dy_to_path(dy)
             ELSE IF dy = 0 THEN dx_to_path(dx)
             ELSE IF s.x = 0 /\ t.y = keypad.gap_y THEN dx_to_path(dx) \o dy_to_path(dy)
             ELSE IF s.y = keypad.gap_y /\ t.x = 0 THEN dy_to_path(dy) \o dx_to_path(dx)
             ELSE IF dx < 0 THEN dx_to_path(dx) \o dy_to_path(dy)
             ELSE dy_to_path(dy) \o dx_to_path(dx)

\* format!("{}A", ...)
find_shortest_path(keypad, start, end) ==
    find_shortest_path_inner(keypad, start, end) \o <<"A">>

D21Others == <<vars16, vars18, varsWrap, pm, tr, d9, p2, d17, d23, varsLate>>

FindShortestPath ==
    /\ d21.pc = "call"
    /\ d21' = [d21 EXCEPT !.pc = "follow",
                          !.path = find_shortest_path(d21.keypad, d21.start, d21.end),
                          !.curr = d21.keypad.button_mapping[d21.start]]
    /\ UNCHANGED D21Others

\* one character of the path taken as translate takes it
Follow ==
    /\ d21.pc = "follow"
    /\ d21.k < Len(d21.path)
    /\ LET c == d21.path[d21.k + 1]
       IN  IF c = "A"
             THEN d21' = [d21 EXCEPT !.k = @ + 1, !.pressed = @ + 1]
             ELSE d21' = [d21 EXCEPT !.k = @ + 1,
                                     !.curr = step_in_direction(@, DIRECTIONS[c])]
    /\ UNCHANGED D21Others

FollowEnd ==
    /\ d21.pc = "follow"
    /\ d21.k = Len(d21.path)
    /\ d21' = [d21 EXCEPT !.pc = "done"]
    /\ UNCHANGED D21Others

Init21 ==
    /\ d21 \in {[pc |-> "call", keypad |-> kp, start |-> s, end |-> t, path |-> << >>,
                 curr |-> Coord(0, 0), k |-> 0, pressed |-> 0] :
                    kp \in {NUMERIC_KEYPAD}, s \in DOMAIN NUMERIC_KEYPAD.button_mapping,
                    t \in DOMAIN NUMERIC_KEYPAD.button_mapping}
            \cup {[pc |-> "call", keypad |-> kp, start |-> s, end |-> t, path |-> << >>,
                   curr |-> Coord(0, 0), k |-> 0, pressed |-> 0] :
                    kp \in {DIRECTIONAL_KEYPAD}, s \in DOMAIN DIRECTIONAL_KEYPAD.button_mapping,
                    t \in DOMAIN DIRECTIONAL_KEYPAD.button_mapping}
    /\ Idle16
    /\ Idle18
    /\ IdleWrap
    /\ IdleLate
    /\ pm = Off
    /\ tr = Off
    /\ d9 = Off
    /\ p2 = Off
    /\ d17 = Off
    /\ d23 = Off

Next21 ==
    \/ FindShortestPath
    \/ Follow
    \/ FollowEnd

Spec21 == Init21 /\ [][Next21]_vars

\* the positions of the buttons of a keypad
ButtonPositions(keypad) ==
    {keypad.button_mapping[c] : c \in DOMAIN keypad.button_mapping}

Abs(n) == IF n < 0 THEN 0 - n ELSE n

(***************************************************************************)
(* C17: for both keypads and every ordered pair of buttons (start, end),   *)
(* the string find_shortest_path returns, followed move by move from       *)
(* start, is on a button position at every step (never on the gap), ends   *)
(* on end, has exactly |dx| + |dy| moves and is terminated by exactly one  *)
(* 'A'.                                                                    *)
(***************************************************************************)
C17_PathStaysOnButtons ==
    d21.pc \in {"follow", "done"} =>
        LET s == d21.keypad.button_mapping[d21.start]
            t == d21.keypad.button_mapping[d21.end]
        IN  /\ d21.curr \in ButtonPositions(d21.keypad)
            /\ Len(d21.path) = Abs(t.x - s.x) + Abs(t.y - s.y) + 1
            /\ d21.path[Len(d21.path)] = "A"
            /\ \A k \in 1..(Len(d21.path) - 1) : d21.path[k] \in DOMAIN DIRECTIONS
            /\ d21.pc = "done" => (d21.curr = t /\ d21.pressed = 1)

\* the path from '1' to 'A' on the numeric keypad, which has to leave the
\* left column before it goes down past the gap, has been followed to its end
C17_Witness ==
    /\ d21.pc = "done"
    /\ d21.keypad = NUMERIC_KEYPAD
    /\ d21.start = "1"
    /\ d21.end = "A"
    /\ d21.path = <<">", ">", "v", "A">>
    /\ d21.curr = Coord(2, 0)

(***************************************************************************)
(* src/bin/23.rs : UndirectedGraph, find_largest_interconnected_set,       *)
(* part_two                                                                *)
(* The recursion is run on an explicit stack.  A frame holds the arguments *)
(* contains and could_contain of one call, the node next it popped, and    *)
(* the value of `includes` once the first inner call has returned; at is   *)
(* the point the call has reached: "entry", "includes" (inside the first   *)
(* inner call) or "excludes" (inside the second).  d23.ret is the value    *)
(* the call that returned last has returned.                               *)
(***************************************************************************)
MaxEdges == 6

NodeNames == <<"co", "de", "ka", "ta">>

\* the lines "{start_node}-{end_node}" an input can hold
PossibleEdges ==
    {<<NodeNames[i], NodeNames[j]>> : i \in 1..Len(NodeNames), j \in 1..Len(NodeNames)}
        \ {<<NodeNames[i], NodeNames[i]>> : i \in 1..Len(NodeNames)}

EdgeLists == {E \in SUBSET PossibleEdges : Cardinality(E) <= MaxEdges}

\* self.edges.entry(node).or_default().insert(other)
entry_insert(edges, node, other) ==
    IF node \in DOMAIN edges
      THEN [edges EXCEPT ![node] = @ \cup {other}]
      ELSE [n \in DOMAIN edges \cup {node} |-> IF n = node THEN {other} ELSE edges[n]]

\* UndirectedGraph::insert_edge
insert_edge(edges, start_node, end_node) ==
    entry_insert(entry_insert(edges, start_node, end_node), end_node, start_node)

RECURSIVE from_edges(_)
\* UndirectedGraph::from_edges: the edges inserted one after the other
from_edges(E) ==
    IF E = {} THEN << >>
    ELSE LET edge == CHOOSE edge \in E : TRUE
         IN  insert_edge(from_edges(E \ {edge}), edge[1], edge[2])

\* UndirectedGraph::get_neighbors
graph_get_neighbors(edges, node) == edges[node]

\* UndirectedGraph::nodes: the keys of the HashMap in any order
nodes_orders(edges) ==
    {sq \in [1..Cardinality(DOMAIN edges) -> DOMAIN edges] :
        \A i, j \in 1..Cardinality(DOMAIN edges) : sq[i] = sq[j] => i = j}

RECURSIVE filter_neighbors_none(_, _)
\* the mutant of filter_neighbors that keeps every node
filter_neighbors_none(could_contain, next_neighbors) ==
    IF could_contain = << >> THEN << >>
    ELSE <<Head(could_contain)>> \o filter_neighbors_none(Tail(could_contain), next_neighbors)

RECURSIVE filter_neighbors(_, _)
\* lines 119-123
filter_neighbors(could_contain, next_neighbors) ==
    IF could_contain = << >> THEN << >>
    ELSE IF Head(could_contain) \in next_neighbors
      THEN <<Head(could_contain)>> \o filter_neighbors(Tail(could_contain), next_neighbors)
      ELSE filter_neighbors(Tail(could_contain), next_neighbors)

Frame(contains, could_contain) ==
    [contains |-> contains, could_contain |-> could_contain, at |-> "entry", includes |-> {}]

D23Others == <<vars16, vars18, varsWrap, pm, tr, d9, p2, d17, d21, varsLate>>

\* lines 140-143
D23PartTwo ==
    /\ d23.pc = "part_two"
    /\ \E order \in nodes_orders(from_edges(d23.input)) :
        d23' = [d23 EXCEPT !.pc = "call", !.graph = from_edges(d23.input),
                           !.stack = <<Frame({}, order)>>]
    /\ UNCHANGED D23Others

\* lines 105-125: a call begins; it returns contains or makes its first inner call
D23Call ==
    /\ d23.pc = "call"
    /\ LET n == Len(d23.stack)
           top == d23.stack[n]
       IN  IF top.could_contain = << >>
             THEN d23' = [d23 EXCEPT !.pc = "return", !.ret = top.contains,
                                     !.stack = SubSeq(d23.stack, 1, n - 1)]
             ELSE LET next == Head(top.could_contain)
                      could_contain == Tail(top.could_contain)
                      new_could_contain ==
                          filter_neighbors(could_contain, graph_get_neighbors(d23.graph, next))
                  IN  d23' = [d23 EXCEPT
                                !.stack = [@ EXCEPT ![n] = [top EXCEPT !.at = "includes"]]
                                            \o <<Frame(top.contains \cup {next}, new_could_contain)>>]
    /\ UNCHANGED D23Others

\* lines 126-129: the first inner call has returned, the second is made
D23Includes ==
    /\ d23.pc = "return"
    /\ d23.stack # << >>
    /\ LET n == Len(d23.stack)
           top == d23.stack[n]
       IN  /\ top.at = "includes"
           /\ d23' = [d23 EXCEPT
                        !.pc = "call",
                        !.stack = [@ EXCEPT ![n] = [top EXCEPT !.at = "excludes",
                                                               !.includes = d23.ret]]
                                    \o <<Frame(top.contains, Tail(top.could_contain))>>]
    /\ UNCHANGED D23Others

\* lines 129-136: the second inner call has returned, the larger set is returned
D23Excludes ==
    /\ d23.pc = "return"
    /\ d23.stack # << >>
    /\ LET n == Len(d23.stack)
           top == d23.stack[n]
           excludes == d23.ret
       IN  /\ top.at = "excludes"
           /\ d23' = [d23 EXCEPT
                        !.ret = IF Cardinality(top.includes) >= Cardinality(excludes)
                                  THEN top.includes ELSE excludes,
                        !.stack = SubSeq(d23.stack, 1, n - 1)]
    /\ UNCHANGED D23Others

\* lines 142-145: the outermost call has returned
D23Done ==
    /\ d23.pc = "return"
    /\ d23.stack = << >>
    /\ d23' = [d23 EXCEPT !.pc = "done", !.largest_interconnected_set = d23.ret]
    /\ UNCHANGED D23Others

Init23 ==
    /\ d23 \in {[pc |-> "part_two", input |-> E, graph |-> << >>, stack |-> << >>,
                 ret |-> {}, largest_interconnected_set |-> {}] : E \in EdgeLists}
    /\ Idle16
    /\ Idle18
    /\ IdleWrap
    /\ IdleLate
    /\ pm = Off
    /\ tr = Off
    /\ d9 = Off
    /\ p2 = Off
    /\ d17 = Off
    /\ d21 = Off

Next23 ==
    \/ D23PartTwo
    \/ D23Call
    \/ D23Includes
    \/ D23Excludes
    \/ D23Done

Spec23 == Init23 /\ [][Next23]_vars

\* two nodes are joined by a line of the input
Joined(E, a, b) == <<a, b>> \in E \/ <<b, a>> \in E

InputNodes(E) == {e[1] : e \in E} \cup {e[2] : e \in E}

PairwiseAdjacent(E, S) == \A a, b \in S : a # b => Joined(E, a, b)

(***************************************************************************)
(* C18: find_largest_interconnected_set(graph, {}, all nodes) returns a    *)
(* set of pairwise adjacent nodes of the graph, and no set of pairwise     *)
(* adjacent nodes has more elements; in every recursive call could_contain *)
(* holds only nodes adjacent to every node of contains.                    *)
(***************************************************************************)
C18_ReturnsLargestClique ==
    /\ d23.pc = "done" =>
        /\ d23.largest_interconnected_set \subseteq InputNodes(d23.input)
        /\ PairwiseAdjacent(d23.input, d23.largest_interconnected_set)
        /\ \A S \in SUBSET InputNodes(d23.input) :
                PairwiseAdjacent(d23.input, S)
                    => Cardinality(S) <= Cardinality(d23.largest_interconnected_set)
    /\ d23.pc = "call" =>
        LET top == d23.stack[Len(d23.stack)]
        IN  \A k \in 1..Len(top.could_contain) : \A c \in top.contains :
                Joined(d23.input, top.could_contain[k], c)

\* a triangle has been returned for a graph of four nodes that is not complete
C18_Witness ==
    /\ d23.pc = "done"
    /\ Cardinality(d23.largest_interconnected_set) = 3
    /\ Cardinality(InputNodes(d23.input)) = 4
    /\ \E n \in InputNodes(d23.input) \ d23.largest_interconnected_set :
            \E c \in d23.largest_interconnected_set : Joined(d23.input, n, c)

(***************************************************************************)
(* C19: once the first goal pop of find_lowest_score_seats has set         *)
(* best_score to c, best_score never takes a different value during the    *)
(* run; every pop made while the loop goes on has the score c and, when it *)
(* is at the end cell, its path is merged into best_seats; and when the    *)
(* loop is left by the stop test, every entry still queued (the popped one *)
(* included) has a score strictly greater than c, so that no entry of      *)
(* score c is discarded.                                                   *)
(***************************************************************************)
C19_EqualScoresDrainedBeforeStop ==
    [][ (pc = "find_lowest_score_seats" /\ best_score # None) =>
            /\ pc' = "find_lowest_score_seats" =>
                /\ best_score' = best_score
                /\ score_so_far' = best_score[1]
                /\ \E e \in BagToSet(queue2) :
                    /\ e.score_so_far = best_score[1]
                    /\ IF e.state.pos = maze.end
                         THEN /\ queue2' = queue2 (-) SetToBag({e})
                              /\ best_seats' = best_seats \cup e.path
                         ELSE best_seats' = best_seats
            /\ (pc' # "find_lowest_score_seats" /\ queue2 # EmptyBag) =>
                /\ best_score' = best_score
                /\ score_so_far' > best_score[1]
                /\ \A e \in BagToSet(queue2) : e.score_so_far > best_score[1]
      ]_vars

\* after the first goal pop an entry of the same score at the end cell and an
\* entry of a greater score are both still queued
C19_Witness ==
    /\ pc = "find_lowest_score_seats"
    /\ best_score # None
    /\ \E e \in BagToSet(queue2) : e.score_so_far = best_score[1] /\ e.state.pos = maze.end
    /\ \E e \in BagToSet(queue2) : e.score_so_far > best_score[1]

Min2(a, b) == IF a <= b THEN a ELSE b

\* the least cost of arriving at s by one move of the search, given the
\* costs D of the states it is pushed from: those one step behind s that
\* face its direction (cost 1) or turn into it (cost 1001); a state on the
\* end cell is not expanded
SearchArrive(m, D, s) ==
    LET q == Coord_step(s.pos, 0 - to_dx_dy(s.dir)[1], 0 - to_dx_dy(s.dir)[2])
    IN  IF q \in m.walls \/ q = m.end THEN Unreached
        ELSE Min2(D[State(q, s.dir)] + 1,
                  Min2(D[State(q, turn_left(s.dir))], D[State(q, turn_right(s.dir))]) + 1001)

RECURSIVE SearchFromStart(_, _)
\* least cost from the start state to every state over the moves the search
\* makes (a step, or a turn by 90 degrees and a step), starting from D
SearchFromStart(m, D) ==
    LET R == [s \in DOMAIN D |-> Min2(D[s], SearchArrive(m, D, s))]
    IN  IF R = D THEN D ELSE SearchFromStart(m, R)

SearchCost(m) ==
    SearchFromStart(m, [s \in FreeStates(m) |-> IF s = start_state(m) THEN 0 ELSE Unreached])

(***************************************************************************)
(* C20 as stated: during a run the visited set of find_lowest_score and    *)
(* the key set of min_score_to_node in find_lowest_score_seats only grow;  *)
(* the cost first recorded for a state in min_score_to_node is the true    *)
(* minimum cost of reaching that (position, direction) state from the      *)
(* start state, a step costing 1 and a rotation by 90 degrees 1000, and is *)
(* never replaced by a different value later in the run.                   *)
(* Violated: a recorded state is the direction of the last step, and the   *)
(* search never rotates without stepping; facing Left on the cell above    *)
(* the start costs 2001, the state can be recorded with 2003.           *)
(***************************************************************************)
C20_RecordedCostsAreMinimalAndFinal ==
    [][ /\ (pc = "find_lowest_score" /\ pc' = "find_lowest_score")
                => visited \subseteq visited'
        /\ (pc = "find_lowest_score_seats" /\ pc' = "find_lowest_score_seats") =>
            /\ DOMAIN min_score_to_node \subseteq DOMAIN min_score_to_node'
            /\ \A s \in DOMAIN min_score_to_node :
                    min_score_to_node'[s] = min_score_to_node[s]
            /\ \A s \in DOMAIN min_score_to_node' \ DOMAIN min_score_to_node :
                    min_score_to_node'[s] = CostFromStart(maze)[s]
      ]_vars

(***************************************************************************)
(* C20 amended: during a run the visited set of find_lowest_score and the  *)
(* key set of min_score_to_node only grow; the cost first recorded for a   *)
(* state in min_score_to_node is the minimum cost of reaching that state   *)
(* from the start state over the moves the search makes (a step forward    *)
(* for 1, a turn by 90 degrees followed by a step for 1001), and is never  *)
(* replaced by a different value later in the run.                         *)
(***************************************************************************)
C20_RecordedCostsAreSearchMinimaAndFinal ==
    [][ /\ (pc = "find_lowest_score" /\ pc' = "find_lowest_score")
                => visited \subseteq visited'
        /\ (pc = "find_lowest_score_seats" /\ pc' = "find_lowest_score_seats") =>
            /\ DOMAIN min_score_to_node \subseteq DOMAIN min_score_to_node'
            /\ \A s \in DOMAIN min_score_to_node :
                    min_score_to_node'[s] = min_score_to_node[s]
            /\ DOMAIN min_score_to_node' # DOMAIN min_score_to_node =>
                 LET D == SearchCost(maze)
                 IN  \A s \in DOMAIN min_score_to_node' \ DOMAIN min_score_to_node :
                        min_score_to_node'[s] = D[s]
      ]_vars

\* several states have their cost recorded, and one of them is still queued
\* with a higher score, reached along a longer path
C20_Witness ==
    /\ pc = "find_lowest_score_seats"
    /\ Cardinality(DOMAIN min_score_to_node) >= 2
    /\ \E s \in DOMAIN min_score_to_node :
        \E e \in BagToSet(queue2) :
            e.state = s /\ e.score_so_far > min_score_to_node[s]

(***************************************************************************)
(* src/bin/09.rs : Filesystem, parse_part_two, part_two                    *)
(*                                                                         *)
(* The BTreeMap of the filesystem is a function from the starting block    *)
(* index to a File or FreeSpace record.  d9two.pc is "call" before         *)
(* part_two runs, "for" in its loop over files_by_id, "returned" or        *)
(* "panicked" after.  d9two.processed (the ids passed to                   *)
(* fill_leftmost_free_space so far), d9two.before (the filesystem before   *)
(* the last call) and d9two.file (the file passed to it) are history.      *)
(***************************************************************************)
File(id, size, idx) == [kind |-> "File", id |-> id, size |-> size, idx |-> idx]

FreeSpace(size, idx) == [kind |-> "FreeSpace", size |-> size, idx |-> idx]

\* BTreeMap::insert and BTreeMap::remove
BTreeMap_insert(m, k, v) == [x \in DOMAIN m \cup {k} |-> IF x = k THEN v ELSE m[x]]

BTreeMap_remove(m, k) == [x \in DOMAIN m \ {k} |-> m[x]]

MaxFileSize == 2

MaxFreeSize == 3

\* the disk maps of part_two: every file holds at least one block
DiskMaps2 ==
    UNION {{m \in [1..(2 * n - 1) -> 0..MaxFreeSize] :
                \A k \in 1..Len(m) : k % 2 = 1 => m[k] \in 1..MaxFileSize} :
           n \in 1..MaxFiles}

\* line 202: .filter(|c| c != &'\n')
filter_newline(input) == SelectSeq(input, LAMBDA c : c # Newline)

RECURSIVE parse_chunks(_, _, _, _)
\* lines 200-232: the chunks of two characters from the k-th on, file_id
\* counted by enumerate()
parse_chunks(chars, file_id, curr_block_idx, map) ==
    IF 2 * file_id + 1 > Len(chars) THEN map
    ELSE LET file_size == chars[2 * file_id + 1] - Digit0
             with_file == BTreeMap_insert(map, curr_block_idx,
                                          File(file_id, file_size, curr_block_idx))
             after_file == curr_block_idx + file_size
         IN  IF 2 * file_id + 2 > Len(chars) THEN with_file
             ELSE LET free_space_size == chars[2 * file_id + 2] - Digit0
                  IN  parse_chunks(chars, file_id + 1, after_file + free_space_size,
                                   BTreeMap_insert(with_file, after_file,
                                                   FreeSpace(free_space_size, after_file)))

parse_part_two(input) == parse_chunks(filter_newline(input), 0, 0, << >>)

\* lines 240-245: the files of the filesystem by their id
files_by_id_of(filesystem) ==
    LET files == {filesystem[k] : k \in {x \in DOMAIN filesystem : filesystem[x].kind = "File"}}
    IN  [id \in {f.id : f \in files} |-> CHOOSE f \in files : f.id = id]

\* the mutant of fill_leftmost_free_space that looks at every free space,
\* those right of the file too
fill_leftmost_free_space_any_side(self, file) ==
    LET fits == {k \in DOMAIN self :
                    self[k].kind = "FreeSpace" /\ self[k].size >= file.size}
    IN  IF fits = {} THEN [panicked |-> FALSE, map |-> self]
        ELSE LET idx == MinOf(fits)
                 emptied == BTreeMap_insert(BTreeMap_remove(self, file.idx), file.idx,
                                            FreeSpace(file.size, file.idx))
                 free_space == emptied[idx]
                 moved == BTreeMap_insert(BTreeMap_remove(emptied, idx), idx,
                                          File(file.id, file.size, idx))
             IN  [panicked |-> FALSE,
                  map |-> IF free_space.size > file.size
                            THEN BTreeMap_insert(moved, idx + file.size,
                                    FreeSpace(free_space.size - file.size, idx + file.size))
                            ELSE moved]

\* lines 122-176: the filesystem after the call, or a panic of an unwrap()
\* or unreachable!()
fill_leftmost_free_space(self, file) ==
    LET fits == {k \in DOMAIN self :
                    /\ k < file.idx
                    /\ self[k].kind = "FreeSpace"
                    /\ self[k].size >= file.size}
    IN  IF fits = {} THEN [panicked |-> FALSE, map |-> self]
        ELSE IF file.idx \notin DOMAIN self \/ self[file.idx].kind # "File"
          THEN [panicked |-> TRUE, map |-> self]
        ELSE LET idx == MinOf(fits)
                 removed == self[file.idx]
                 emptied == BTreeMap_insert(BTreeMap_remove(self, file.idx), removed.idx,
                                            FreeSpace(removed.size, removed.idx))
                 free_space == emptied[idx]
                 moved == BTreeMap_insert(BTreeMap_remove(emptied, idx), idx,
                                          File(removed.id, removed.size, idx))
             IN  [panicked |-> FALSE,
                  map |-> IF free_space.size > removed.size
                            THEN BTreeMap_insert(moved, idx + removed.size,
                                    FreeSpace(free_space.size - removed.size,
                                              idx + removed.size))
                            ELSE moved]

RECURSIVE checksum_over(_, _)
\* lines 109-120
checksum_over(self, keys) ==
    IF keys = {} THEN 0
    ELSE LET idx == MinOf(keys)
         IN  (IF self[idx].kind = "File"
                THEN BlockSum(idx, self[idx].size, self[idx].id) ELSE 0)
             + checksum_over(self, keys \ {idx})

calculate_checksum(self) == checksum_over(self, DOMAIN self)

D9TwoOthers == <<vars16, vars18, varsWrap, varsRest, d13, d22>>

\* lines 238-245
D9TwoParse ==
    /\ d9two.pc = "call"
    /\ LET filesystem == parse_part_two(d9two.input)
       IN  d9two' = [pc |-> "for", input |-> d9two.input, filesystem |-> filesystem,
                     files_by_id |-> files_by_id_of(filesystem),
                     processed |-> << >>, before |-> filesystem, file |-> None]
    /\ UNCHANGED D9TwoOthers

\* lines 248-249: one iteration of the loop over files_by_id.into_iter().rev()
D9TwoFill ==
    /\ d9two.pc = "for"
    /\ DOMAIN d9two.files_by_id # {}
    /\ LET id == CHOOSE i \in DOMAIN d9two.files_by_id :
                    \A j \in DOMAIN d9two.files_by_id : j <= i
           file == d9two.files_by_id[id]
           filled == fill_leftmost_free_space(d9two.filesystem, file)
       IN  d9two' = [d9two EXCEPT
                        !.pc = IF filled.panicked THEN "panicked" ELSE "for",
                        !.filesystem = filled.map,
                        !.files_by_id = [i \in DOMAIN d9two.files_by_id \ {id} |->
                                            d9two.files_by_id[i]],
                        !.processed = Append(@, id),
                        !.before = d9two.filesystem,
                        !.file = Some(file)]
    /\ UNCHANGED D9TwoOthers

\* lines 256-258
D9TwoReturn ==
    /\ d9two.pc = "for"
    /\ DOMAIN d9two.files_by_id = {}
    /\ d9two' = [pc |-> "returned", input |-> d9two.input,
                 filesystem |-> d9two.filesystem, processed |-> d9two.processed,
                 result |-> Some(calculate_checksum(d9two.filesystem))]
    /\ UNCHANGED D9TwoOthers

Init9Two ==
    /\ \E m \in DiskMaps2, newline \in BOOLEAN :
            d9two = [pc |-> "call", input |-> DiskInput(m, newline)]
    /\ d13 = Off
    /\ d22 = Off
    /\ Idle16
    /\ Idle18
    /\ IdleWrap
    /\ pm = Off /\ tr = Off /\ d9 = Off /\ p2 = Off /\ d17 = Off /\ d21 = Off /\ d23 = Off

Next9Two == D9TwoParse \/ D9TwoFill \/ D9TwoReturn

Spec9Two == Init9Two /\ [][Next9Two]_vars

\* the entries of a filesystem tile the blocks 0 .. len - 1, none empty
Tiles(fs, len) ==
    /\ len > 0 => 0 \in DOMAIN fs
    /\ \A k \in DOMAIN fs :
        /\ fs[k].idx = k
        /\ fs[k].size >= 1
        /\ k + fs[k].size = len \/ k + fs[k].size \in DOMAIN fs
        /\ \A j \in DOMAIN fs : ~(k < j /\ j < k + fs[k].size)

\* the blocks of a tiling filesystem: a file id or -1 (free)
BlocksOfFilesystem(fs, len) ==
    [i \in 1..len |->
        LET k == CHOOSE x \in DOMAIN fs : x <= i - 1 /\ i - 1 < x + fs[x].size
        IN  IF fs[k].kind = "File" THEN fs[k].id ELSE 0 - 1]

\* the blocks after the whole file id has been moved to the lowest maximal
\* run of free blocks that starts left of it and is long enough
WholeFileMoved(b, id) ==
    LET at == {i \in 1..Len(b) : b[i] = id}
        p == MinOf(at)
        n == Cardinality(at)
        starts_run(i) == b[i] < 0 /\ (i = 1 \/ b[i - 1] >= 0)
        long_enough(i) == i + n - 1 <= Len(b) /\ \A j \in i..(i + n - 1) : b[j] < 0
        targets == {i \in 1..(p - 1) : starts_run(i) /\ long_enough(i)}
    IN  IF targets = {} THEN b
        ELSE LET t == MinOf(targets)
             IN  [i \in 1..Len(b) |->
                    IF i \in t..(t + n - 1) THEN id
                    ELSE IF i \in at THEN 0 - 1
                    ELSE b[i]]

NumFiles(m) == (Len(m) + 1) \div 2

MaxMachines == 2

MaxDelta == 4

PRESSES == 100

Button(dx, dy) == [dx |-> dx, dy |-> dy]

\* line 13
press_n_times(self, n) == <<self.dx * n, self.dy * n>>

ClawMachine(button_a, button_b, prize) ==
    [button_a |-> button_a, button_b |-> button_b, prize |-> prize]

\* lines 24-29
wins_prize(self, a_presses, b_presses) ==
    LET a == press_n_times(self.button_a, a_presses)
        b == press_n_times(self.button_b, b_presses)
    IN  <<a[1] + b[1], a[2] + b[2]>> = self.prize

DecimalDigits == <<"0", "1", "2", "3", "4", "5", "6", "7", "8", "9">>

RECURSIVE parse_usize(_)
\* str::parse::<usize> of a text of decimal digits
parse_usize(text) ==
    IF text = << >> THEN 0
    ELSE 10 * parse_usize(SubSeq(text, 1, Len(text) - 1))
            + (CHOOSE d \in 0..9 : DecimalDigits[d + 1] = text[Len(text)])

\* str::find of a character: the 0-based index of its first occurrence
find(text, c) ==
    LET at == {i \in 1..Len(text) : text[i] = c}
    IN  IF at = {} THEN None ELSE Some(MinOf(at) - 1)

RECURSIVE lines(_)
\* str::lines
lines(text) ==
    LET nl == find(text, "\n")
    IN  IF text = << >> THEN << >>
        ELSE IF nl = None THEN <<text>>
        ELSE <<SubSeq(text, 1, nl[1])>> \o lines(SubSeq(text, nl[1] + 2, Len(text)))

\* lines 87-108; "Button A: X+".len() is 12
parse_button(line) ==
    LET input == SubSeq(line, 12 + 1, Len(line))
        dx_end == find(input, ",")[1]
        dy_start == find(input, "+")[1] + 1
    IN  Button(parse_usize(SubSeq(input, 1, dx_end)),
               parse_usize(SubSeq(input, dy_start + 1, Len(input))))

\* lines 110-131; "Prize: X=".len() is 9
parse_prize(line) ==
    LET input == SubSeq(line, 9 + 1, Len(line))
        x_end == find(input, ",")[1]
        y_start == find(input, "=")[1] + 1
    IN  <<parse_usize(SubSeq(input, 1, x_end)),
          parse_usize(SubSeq(input, y_start + 1, Len(input)))>>

\* lines 74-85: None when collect_tuple() finds other than three lines
parse_claw_machine(block) ==
    LET ls == lines(block)
    IN  IF Len(ls) # 3 THEN None
        ELSE Some(ClawMachine(parse_button(ls[1]), parse_button(ls[2]), parse_prize(ls[3])))

\* lines 140-147: the first (a_presses, b_presses) of the two nested loops
\* over 0..100 that wins, if any: the least a_presses with a winning
\* b_presses, and the least such b_presses
first_win(claw_machine) ==
    LET winning_bs(a) == {b \in 0..(PRESSES - 1) : wins_prize(claw_machine, a, b)}
        winning_as == {a \in 0..(PRESSES - 1) : winning_bs(a) # {}}
    IN  IF winning_as = {} THEN None
        ELSE Some(<<MinOf(winning_as), MinOf(winning_bs(MinOf(winning_as)))>>)

RECURSIVE Decimal(_)
\* the decimal text of a number
Decimal(n) == IF n < 10 THEN <<DecimalDigits[n + 1]>>
              ELSE Decimal(n \div 10) \o <<DecimalDigits[(n % 10) + 1]>>

\* the three lines of a claw machine in the puzzle's format
BlockText(a, b, prize) ==
    <<"B", "u", "t", "t", "o", "n", " ", "A", ":", " ", "X", "+">> \o Decimal(a.dx)
        \o <<",", " ", "Y", "+">> \o Decimal(a.dy) \o <<"\n">>
    \o <<"B", "u", "t", "t", "o", "n", " ", "B", ":", " ", "X", "+">> \o Decimal(b.dx)
        \o <<",", " ", "Y", "+">> \o Decimal(b.dy) \o <<"\n">>
    \o <<"P", "r", "i", "z", "e", ":", " ", "X", "=">> \o Decimal(prize[1])
        \o <<",", " ", "Y", "=">> \o Decimal(prize[2])

\* buttons that move by 1 or by MaxDelta along each axis
Buttons == {Button(dx, dy) : dx \in {1, MaxDelta}, dy \in {1, MaxDelta}}

\* the press counts the prizes are put at: few presses, and presses at
\* and just under the limit of the puzzle
PressSamples ==
    {<<1, 0>>, <<0, MaxDelta>>, <<1, 1>>, <<PRESSES, 0>>, <<0, PRESSES - 1>>}

\* prizes some presses land on, and one next to such a prize
Prizes(a, b) ==
    {<<a.dx * p[1] + b.dx * p[2], a.dy * p[1] + b.dy * p[2]>> : p \in PressSamples}
        \cup {<<a.dx + b.dx, a.dy + b.dy + 1>>}

D13Others == <<vars16, vars18, varsWrap, varsRest, d9two, d22>>

\* lines 137-147: d13 after the iteration for a parsed claw machine
iteration(d, block, claw_machine, win) ==
    [pc |-> "for", count |-> d.count + 1,
     tokens |-> d.tokens + IF win = None THEN 0 ELSE 3 * win[1][1] + win[1][2],
     block |-> block, machine |-> claw_machine, win |-> win,
     added |-> IF win = None THEN 0 ELSE 3 * win[1][1] + win[1][2],
     result |-> None]

\* lines 137-147: one iteration of the loop over claw_machines
D13Machine ==
    /\ d13.pc = "for"
    /\ d13.count < MaxMachines
    /\ \E a \in Buttons, b \in Buttons :
        \E prize \in Prizes(a, b) :
            \E block \in {BlockText(a, b, prize)} :
                \E parsed \in {parse_claw_machine(block)} :
                    IF parsed = None
                      THEN d13' = [d13 EXCEPT !.pc = "panicked", !.block = block]
                      ELSE \E win \in {first_win(parsed[1])} :
                                d13' = iteration(d13, block, parsed[1], win)
    /\ UNCHANGED D13Others

\* line 150
D13Return ==
    /\ d13.pc = "for"
    /\ d13' = [d13 EXCEPT !.pc = "returned", !.result = Some(u32(d13.tokens))]
    /\ UNCHANGED D13Others

Init13Day ==
    /\ d13 = [pc |-> "for", count |-> 0, tokens |-> 0, block |-> << >>,
              machine |-> ClawMachine(Button(0, 0), Button(0, 0), <<0, 0>>),
              win |-> None, added |-> 0, result |-> None]
    /\ d9two = Off
    /\ d22 = Off
    /\ Idle16
    /\ Idle18
    /\ IdleWrap
    /\ pm = Off /\ tr = Off /\ d9 = Off /\ p2 = Off /\ d17 = Off /\ d21 = Off /\ d23 = Off

Next13Day == D13Machine \/ D13Return

Spec13Day == Init13Day /\ [][Next13Day]_vars

\* the cost 3 * a + b of every pair of at most PRESSES presses per button
\* that lands on the prize; b follows from a along the x axis
WinCosts(m) ==
    {3 * a + ((m.prize[1] - a * m.button_a.dx) \div m.button_b.dx) :
        a \in {x \in 0..PRESSES :
                LET rest == m.prize[1] - x * m.button_a.dx
                    b == rest \div m.button_b.dx
                IN  /\ rest >= 0
                    /\ rest % m.button_b.dx = 0
                    /\ b <= PRESSES
                    /\ x * m.button_a.dy + b * m.button_b.dy = m.prize[2]}}

(***************************************************************************)
(* C22: for every claw machine the tokens part_one adds are the minimum of *)
(* 3 * a + b over the press counts (a, b), at most 100 per button, that    *)
(* land exactly on the prize, and 0 when there are none; the first winning *)
(* pair met iterating a upward and then b upward is that cheapest pair.    *)
(* Violated: the loops run over 0..100, which ends at 99 presses, and with *)
(* buttons that move along the same line the first pair met can cost more  *)
(* than a later one.                                                       *)
(***************************************************************************)
C22_AddsCheapestWin ==
    (d13.pc \in {"for", "returned"} /\ d13.count > 0) =>
        /\ d13.added = IF WinCosts(d13.machine) = {} THEN 0 ELSE MinOf(WinCosts(d13.machine))
        /\ d13.win # None =>
                3 * d13.win[1][1] + d13.win[1][2] = MinOf(WinCosts(d13.machine))

(***************************************************************************)
(* src/bin/22.rs : Diffs                                                   *)
(*                                                                         *)
(* d22.diffs and d22.ptr are the fields of a Diffs.  d22.pushed (every     *)
(* value pushed so far, in push order), d22.last (the last call: "new",    *)
(* "push" or "get") and d22.ret (what the last call returned when it was   *)
(* a get) are history.                                                     *)
(***************************************************************************)
MaxPushes == 6

MaxDiff == 1

\* the price changes pushed: an i8 between -MaxDiff and MaxDiff
DiffValues == (0 - MaxDiff)..MaxDiff

\* lines 90-95
Diffs_new == [diffs |-> <<0, 0, 0, 0>>, ptr |-> 0]

\* the mutant of Diffs_get that reads the array from its start
Diffs_get_unrotated(self) ==
    IF self.ptr < 4 THEN None ELSE Some(self.diffs)

\* lines 97-113
Diffs_get(self) ==
    IF self.ptr < 4 THEN None
    ELSE LET i == self.ptr % 4
         IN  Some(SubSeq(self.diffs, i + 1, 4) \o SubSeq(self.diffs, 1, i))

\* lines 115-118
Diffs_push(self, diff) ==
    [diffs |-> [self.diffs EXCEPT ![(self.ptr % 4) + 1] = diff], ptr |-> self.ptr + 1]

D22Others == <<vars16, vars18, varsWrap, varsRest, d9two, d13>>

\* diffs.push(diff)
D22Push ==
    /\ d22.pc = "diffs"
    /\ d22.ptr < MaxPushes
    /\ \E diff \in DiffValues :
        LET pushed == Diffs_push([diffs |-> d22.diffs, ptr |-> d22.ptr], diff)
        IN  d22' = [d22 EXCEPT !.diffs = pushed.diffs, !.ptr = pushed.ptr,
                               !.pushed = Append(@, diff), !.last = "push",
                               !.ret = None]
    /\ UNCHANGED D22Others

\* diffs.get(): it takes &self
D22Get ==
    /\ d22.pc = "diffs"
    /\ d22' = [d22 EXCEPT !.last = "get",
                          !.ret = Diffs_get([diffs |-> d22.diffs, ptr |-> d22.ptr])]
    /\ UNCHANGED D22Others

Init22 ==
    /\ d22 = [pc |-> "diffs", diffs |-> Diffs_new.diffs, ptr |-> Diffs_new.ptr,
              pushed |-> << >>, last |-> "new", ret |-> None]
    /\ d9two = Off
    /\ d13 = Off
    /\ Idle16
    /\ Idle18
    /\ IdleWrap
    /\ pm = Off /\ tr = Off /\ d9 = Off /\ p2 = Off /\ d17 = Off /\ d21 = Off /\ d23 = Off

Next22 == D22Push \/ D22Get

Spec22 == Init22 /\ [][Next22]_vars

\* the last four values of a sequence, oldest first
LastFour(sq) == SubSeq(sq, Len(sq) - 3, Len(sq))

(***************************************************************************)
(* C23: for every sequence of push calls on a new Diffs, get returns None  *)
(* while fewer than 4 values have been pushed and, after 4 or more pushes, *)
(* the last four pushed values in push order, oldest first; get changes    *)
(* neither the buffer nor its pointer.                                     *)
(***************************************************************************)
C23_GetReturnsLastFourPushed ==
    [][ d22'.last = "get" =>
            /\ d22'.ret = IF Len(d22.pushed) < 4 THEN None
                          ELSE Some(LastFour(d22.pushed))
            /\ d22'.diffs = d22.diffs
            /\ d22'.ptr = d22.ptr
            /\ d22'.pushed = d22.pushed
      ]_vars

\* get has returned four values after the buffer wrapped around, the
\* oldest of them not at the start of the array
C23_Witness ==
    /\ d22.pc = "diffs"
    /\ d22.last = "get"
    /\ d22.ret # None
    /\ Len(d22.pushed) > 4
    /\ d22.ptr % 4 # 0
    /\ d22.ret[1] # d22.diffs
    /\ d22.ret[1] = LastFour(d22.pushed)

====
